---- MODULE Spec2Model ----
(***************************************************************************)
(* A model of the RPC endpoint of rpc_endpoint.cc: the event handler state *)
(* machine, the blocking drive loop, the facade methods called by client   *)
(* threads, the server loop and the asynchronous server entry point.       *)
(* Bytes are naturals below 256; R, W and the channel are byte sequences.  *)
(***************************************************************************)
EXTENDS Integers, Sequences, FiniteSets, TLC

(***************************************************************************)
(* Bounds of the model.                                                    *)
(***************************************************************************)
\* facade operations each client thread may issue
MaxOps == 1
\* packets the scripted peer may send
MaxEnvPackets == 2
\* requests the scripted peer may send to the event-driven server
MaxAsyncOps == 2
\* the copies a client session makes
MaxCopies == 2
\* the largest payload of a copy, in bytes
MaxCopyBytes == 4
\* the largest block of a copy: the maximum packet size less the overhead
MaxBlock == 2

(***************************************************************************)
(* Byte helpers: little-endian fixed-width integers.                       *)
(***************************************************************************)
Take(s, n) == SubSeq(s, 1, n)

Drop(s, n) == SubSeq(s, n + 1, Len(s))

\* the value of little-endian bytes; a value of 2^24 or more is read as 2^24,
\* which is more than any buffer of the model holds
RECURSIVE DecSmall(_)
DecSmall(bs) == IF bs = <<>> THEN 0 ELSE Head(bs) + 256 * DecSmall(Tail(bs))

DecLE(bs) ==
  IF \E i \in 4..Len(bs) : bs[i] # 0 THEN 16777216
  ELSE DecSmall(Take(bs, IF Len(bs) < 3 THEN Len(bs) ELSE 3))

RECURSIVE LE(_, _)
LE(n, w) == IF w = 0 THEN <<>> ELSE <<n % 256>> \o LE(n \div 256, w - 1)

\* an int32 read from four little-endian bytes: every negative value is read as -1
DecI32(bs) == IF bs[4] >= 128 THEN -1 ELSE DecLE(bs)

(***************************************************************************)
(* RPCCode: the opcodes, numbered in the order the interface lists them;   *)
(* the syscall codes begin at kSyscallCodeStart, which is the code of the  *)
(* first of them.                                                          *)
(***************************************************************************)
RPCCode ==
  [kNone |-> 0,
   kShutdown |-> 1,
   kInitServer |-> 2,
   kCallFunc |-> 3,
   kReturn |-> 4,
   kException |-> 5,
   kCopyFromRemote |-> 6,
   kCopyToRemote |-> 7,
   kCopyAck |-> 8,
   kSyscallCodeStart |-> 9,
   kGetGlobalFunc |-> 9,
   kFreeHandle |-> 10,
   kDevSetDevice |-> 11,
   kDevGetAttr |-> 12,
   kDevAllocData |-> 13,
   kDevFreeData |-> 14,
   kDevStreamSync |-> 15,
   kCopyAmongRemote |-> 16,
   kDevCreateStream |-> 17,
   kDevFreeStream |-> 18,
   kDevSetStream |-> 19,
   kDevGetCurrentStream |-> 20,
   kDevAllocDataWithScope |-> 21]

\* the syscalls served by the uniform SysCallHandler
PlainSyscalls == {RPCCode.kGetGlobalFunc, RPCCode.kFreeHandle, RPCCode.kDevSetDevice, RPCCode.kDevGetAttr, RPCCode.kDevAllocData,
                  RPCCode.kDevFreeData, RPCCode.kCopyAmongRemote, RPCCode.kDevCreateStream, RPCCode.kDevFreeStream,
                  RPCCode.kDevSetStream, RPCCode.kDevGetCurrentStream, RPCCode.kDevAllocDataWithScope}

(***************************************************************************)
(* Strings are sequences of character codes.                               *)
(***************************************************************************)
\* "RPCSessionTimeoutError: "
TimeoutPrefix == <<82, 80, 67, 83, 101, 115, 115, 105, 111, 110, 84, 105, 109, 101, 111, 117,
                   116, 69, 114, 114, 111, 114, 58, 32>>

\* "RPCError: Error caught from RPC call:\n"
RPCErrorBanner == <<82, 80, 67, 69, 114, 114, 111, 114, 58, 32, 69, 114, 114, 111, 114, 32, 99,
                    97, 117, 103, 104, 116, 32, 102, 114, 111, 109, 32, 82, 80, 67, 32, 99, 97,
                    108, 108, 58, 10>>

\* support::StartsWith
StartsWith(s, prefix) == Len(s) >= Len(prefix) /\ Take(s, Len(prefix)) = prefix

\* kRPCProtocolVer, abbreviated
kRPCProtocolVer == <<48, 46, 56>>

\* "boom"
MsgBoom == <<98, 111, 111, 109>>

\* a session timeout reported by the serving session
MsgTimeout == TimeoutPrefix \o <<120>>

\* what() of the errors raised while serving, abbreviated to two letters
What(err) ==
  CASE err = "NoSession" -> <<78, 83>>
    [] err = "AsyncInSync" -> <<65, 83>>
    [] err = "AlreadyInit" -> <<65, 73>>
    [] err = "Version" -> <<86, 69>>
    [] err = "NoCtor" -> <<78, 67>>
    [] err = "CtorFailed" -> <<67, 70>>
    [] err = "BadCast" -> <<66, 67>>
    [] OTHER -> <<66, 65>>

(***************************************************************************)
(* Packed values.  Every value is a record [k, n, s]: k the kind, n the    *)
(* integer payload, s the string payload.                                  *)
(***************************************************************************)
\* a value without a string payload: "null", "int", "ptr" (an opaque handle),
\* "dev" (n the device type), "obj" (an RPCObjectRef holding a handle of the
\* peer), "localobj" (an object that is neither a Module nor an RPCObjectRef)
Val(k, n) == [k |-> k, n |-> n, s |-> <<>>]

VNull == Val("null", 0)

VInt(i) == Val("int", i)

VStr(str) == [k |-> "str", n |-> 0, s |-> str]

kDLCPU == 1

kRPCSessMask == 128

\* the type-code word of a value kind
TCode(k) ==
  CASE k = "null" -> 0
    [] k = "int" -> 1
    [] k = "ptr" -> 4
    [] k = "dev" -> 6
    [] k = "str" -> 8
    [] OTHER -> 64

\* the fixed type tag written in front of a remote object's handle
kRuntimeRPCObjectRef == 73

Sendable(a) == a.k \in {"null", "int", "ptr", "dev", "str", "obj"}

\* WriteFFIAny for an object, the raw payload for the other kinds
EncVal(a) ==
  CASE a.k = "null" -> <<>>
    [] a.k = "int" -> LE(a.n, 8)
    [] a.k = "ptr" -> LE(a.n, 8)
    [] a.k = "dev" -> LE(a.n, 4) \o LE(0, 4)
    [] a.k = "str" -> LE(Len(a.s), 8) \o a.s
    [] OTHER -> LE(kRuntimeRPCObjectRef, 4) \o LE(a.n, 8)

RECURSIVE Concat(_)
Concat(ss) == IF ss = <<>> THEN <<>> ELSE Head(ss) \o Concat(Tail(ss))

\* SendPackedSeq: u32 count, the type-code words, the values
EncSeq(args) ==
  LE(Len(args), 4) \o Concat([i \in 1..Len(args) |-> LE(TCode(args[i].k), 4)])
                   \o Concat([i \in 1..Len(args) |-> EncVal(args[i])])

\* PackedSeqGetNumBytes: the dry-run length of the encoding
RECURSIVE ValBytes(_)
ValBytes(args) ==
  IF args = <<>> THEN 0
  ELSE LET a == Head(args) IN
       (CASE a.k = "null" -> 0
          [] a.k = "int" -> 8
          [] a.k = "ptr" -> 8
          [] a.k = "dev" -> 8
          [] a.k = "str" -> 8 + Len(a.s)
          [] OTHER -> 12) + ValBytes(Tail(args))

PackedSeqGetNumBytes(args) == 4 + 4 * Len(args) + ValBytes(args)

ParseFail(why) == [ok |-> FALSE, args |-> <<>>, used |-> 0, why |-> why]

\* one value of type code c at the head of bs; why = "short" when the value needs
\* more bytes than the packet has left, "type" when the code is not a known kind
ParseVal(c, bs) ==
  CASE c = 0 -> [ok |-> TRUE, v |-> VNull, used |-> 0, why |-> ""]
    [] c \in {1, 4} ->
         IF Len(bs) < 8 THEN [ok |-> FALSE, v |-> VNull, used |-> 0, why |-> "short"]
         ELSE [ok |-> TRUE, v |-> IF c = 1 THEN VInt(DecLE(Take(bs, 8))) ELSE Val("ptr", DecLE(Take(bs, 8))),
               used |-> 8, why |-> ""]
    [] c = 6 ->
         IF Len(bs) < 8 THEN [ok |-> FALSE, v |-> VNull, used |-> 0, why |-> "short"]
         ELSE [ok |-> TRUE, v |-> Val("dev", DecLE(Take(bs, 4))), used |-> 8, why |-> ""]
    [] c = 8 ->
         IF Len(bs) < 8 \/ Len(bs) < 8 + DecLE(Take(bs, 8))
         THEN [ok |-> FALSE, v |-> VNull, used |-> 0, why |-> "short"]
         ELSE LET n == DecLE(Take(bs, 8)) IN
              [ok |-> TRUE, v |-> VStr(SubSeq(bs, 9, 8 + n)), used |-> 8 + n, why |-> ""]
    [] c = 64 ->
         \* ReadFFIAny
         IF Len(bs) < 4 THEN [ok |-> FALSE, v |-> VNull, used |-> 0, why |-> "short"]
         ELSE IF DecLE(Take(bs, 4)) # kRuntimeRPCObjectRef
              THEN [ok |-> FALSE, v |-> VNull, used |-> 0, why |-> "type"]
              ELSE IF Len(bs) < 12 THEN [ok |-> FALSE, v |-> VNull, used |-> 0, why |-> "short"]
                   ELSE [ok |-> TRUE, v |-> Val("obj", DecLE(SubSeq(bs, 5, 12))), used |-> 12, why |-> ""]
    [] OTHER -> [ok |-> FALSE, v |-> VNull, used |-> 0, why |-> "type"]

RECURSIVE ParseVals(_, _, _)
\* ParseVals after the parse p of the first value
ParseNext(codes, bs, acc, p) ==
  IF ~p.ok THEN ParseFail(p.why)
  ELSE ParseVals(Tail(codes), Drop(bs, p.used),
                 [acc EXCEPT !.args = Append(@, p.v), !.used = @ + p.used])

\* the values of the type codes at the head of bs, added to what acc holds
ParseVals(codes, bs, acc) ==
  IF codes = <<>> THEN acc ELSE ParseNext(codes, bs, acc, ParseVal(Head(codes), bs))

\* RecvPackedSeq over the bytes bs that remain of the packet
ParseSeq(bs) ==
  IF Len(bs) < 4 \/ Len(bs) < 4 + 4 * DecLE(Take(bs, 4)) THEN ParseFail("short")
  ELSE ParseVals([i \in 1..DecLE(Take(bs, 4)) |-> DecLE(SubSeq(bs, 4 * i + 1, 4 * i + 4))],
                 Drop(bs, 4 + 4 * DecLE(Take(bs, 4))),
                 [ok |-> TRUE, args |-> <<>>, used |-> 4 + 4 * DecLE(Take(bs, 4)), why |-> ""])

\* a packet: u64 length, u32 opcode, body
Packet(code, body) == LE(4 + Len(body), 8) \o LE(code, 4) \o body

(***************************************************************************)
(* Tensor descriptors: device(8), u64 data, u32 ndim, shape, dtype(4),     *)
(* u64 byte_offset.                                                        *)
(***************************************************************************)
Tensor(dev, data, shape, bits, off) ==
  [dev |-> dev, data |-> data, shape |-> shape, bits |-> bits, off |-> off]

\* SendDLTensor
EncTensor(t) ==
  LE(t.dev, 4) \o LE(0, 4) \o LE(t.data, 8) \o LE(Len(t.shape), 4)
    \o Concat([i \in 1..Len(t.shape) |-> LE(t.shape[i], 8)])
    \o <<0, t.bits, 1, 0>> \o LE(t.off, 8)

\* ReceiveDLTensor over the bytes bs that remain of the packet
ParseTensor(bs) ==
  IF Len(bs) < 20 THEN [ok |-> FALSE, t |-> Tensor(0, 0, <<>>, 0, 0), used |-> 0, why |-> "short"]
  ELSE LET nd == DecI32(SubSeq(bs, 17, 20)) IN
       IF nd < 0 THEN [ok |-> FALSE, t |-> Tensor(0, 0, <<>>, 0, 0), used |-> 0, why |-> "type"]
       ELSE IF Len(bs) < 32 + 8 * nd
            THEN [ok |-> FALSE, t |-> Tensor(0, 0, <<>>, 0, 0), used |-> 0, why |-> "short"]
            ELSE [ok |-> TRUE,
                  t |-> Tensor(DecLE(SubSeq(bs, 1, 4)), DecLE(SubSeq(bs, 9, 16)),
                               [i \in 1..nd |-> DecLE(SubSeq(bs, 20 + 8 * i - 7, 20 + 8 * i))],
                               bs[20 + 8 * nd + 2],
                               DecLE(SubSeq(bs, 20 + 8 * nd + 5, 20 + 8 * nd + 12))),
                  used |-> 32 + 8 * nd, why |-> ""]

\* RemoteCopyCalculatePacketOverheadSize: opcode, data, device, ndim, dtype,
\* byte_offset, shape, nbytes
RemoteCopyCalculatePacketOverheadSize_NoCount(t) == 4 + 8 + 8 + 4 + 4 + 8 + 8 * Len(t.shape)

RemoteCopyCalculatePacketOverheadSize(t) == 4 + 8 + 8 + 4 + 4 + 8 + 8 * Len(t.shape) + 8

RECURSIVE Product(_)
Product(s) == IF s = <<>> THEN 1 ELSE Head(s) * Product(Tail(s))

\* GetDataSize: the bytes of the whole tensor
GetDataSize(t) == (Product(t.shape) * t.bits + 7) \div 8

(***************************************************************************)
(* The serving session, as the handler sees it: "null" (none installed),   *)
(* "local" (synchronous, host memory is local) or "async" (completions are *)
(* delivered later, memory is reached through copies).                     *)
(***************************************************************************)
IsAsync(sess) == sess = "async"

IsLocalSession(sess) == sess = "local"

\* the functions the serving session offers: 1 echoes its arguments, 2 raises
\* "boom", 3 raises a session timeout
SessCall(handle, args) ==
  CASE handle = 1 -> [ok |-> TRUE, rv |-> args, msg |-> <<>>]
    [] handle = 2 -> [ok |-> FALSE, rv |-> <<>>, msg |-> MsgBoom]
    [] OTHER -> [ok |-> FALSE, rv |-> <<>>, msg |-> MsgTimeout]

\* the plain syscalls against the serving session; a value of the wrong kind
\* makes the cast of the argument throw
SessSyscall(code, args) ==
  IF code = RPCCode.kGetGlobalFunc
  THEN IF Len(args) >= 1 /\ args[1].k = "str"
       THEN [ok |-> TRUE, rv |-> Val("ptr", IF Len(args[1].s) = 1 THEN args[1].s[1] % 4 ELSE 0), msg |-> <<>>]
       ELSE [ok |-> FALSE, rv |-> VNull, msg |-> What("BadCast")]
  ELSE IF code = RPCCode.kFreeHandle
       THEN IF Len(args) >= 1 /\ args[1].k \in {"ptr", "null"}
            THEN [ok |-> TRUE, rv |-> VNull, msg |-> <<>>]
            ELSE [ok |-> FALSE, rv |-> VNull, msg |-> What("BadCast")]
       ELSE IF Len(args) >= 1 /\ args[1].k = "dev"
            THEN [ok |-> TRUE, rv |-> VNull, msg |-> <<>>]
            ELSE [ok |-> FALSE, rv |-> VNull, msg |-> What("BadCast")]

\* the session constructors InitServer can name: "L" ("rpc.LocalSession") builds
\* a local session where the global function is registered and does not raise,
\* "A" an asynchronous one, "F" raises, any other name is not registered
CtorOutcome(h, name) ==
  CASE name = <<76>> -> h.local_ctor
    [] name = <<65>> -> "async"
    [] name = <<70>> -> "fail"
    [] OTHER -> "missing"

(***************************************************************************)
(* The endpoint: the event handler's fields, the ring buffers R and W, the *)
(* channel (chan: channel_ is not null; out: the bytes handed to it that   *)
(* the peer has not received yet) and the host memory of the tensor.       *)
(***************************************************************************)
NoOp == [kind |-> "none", t |-> Tensor(0, 0, <<>>, 0, 0), n |-> 0, data |-> <<>>, args |-> <<>>]

MemSize == 2

\* EventHandler::EventHandler and Clear
NewEndpoint(toinit, sess) ==
  [state |-> IF toinit THEN "InitHeader" ELSE "RecvPacketNumBytes",
   pending |-> IF toinit THEN 4 ELSE 8,
   init_header_step |-> 0,
   remote_key |-> <<>>,
   client_mode |-> FALSE,
   async_server_mode |-> FALSE,
   fset |-> "noop",
   R |-> <<>>,
   W |-> <<>>,
   out |-> <<>>,
   chan |-> TRUE,
   sess |-> sess,
   inflight |-> NoOp,
   mem |-> [i \in 1..MemSize |-> 0],
   arena |-> 0,
   err |-> "",
   errmsg |-> <<>>,
   \* history: bytes consumed from R, packets dispatched, reply packets written,
   \* arena recycles, the arguments set_return was called with, the message of
   \* the Exception packet received
   nread |-> 0,
   ndisp |-> 0,
   nreply |-> 0,
   recycles |-> 0,
   \* history: switches into WaitForAsyncCallback and out of it, completion
   \* callbacks run, catch blocks run in WaitForAsyncCallback
   nwait |-> 0,
   nleft |-> 0,
   ndone |-> 0,
   ncatch |-> 0,
   \* history: switches into RecvPacketNumBytes, the recycle count when the last
   \* packet was dispatched, and whether a reply was written after a recycle
   \* that followed the dispatch of its packet
   nrecv |-> 0,
   drcy |-> 0,
   early |-> FALSE,
   \* history: the length prefix of the last packet that was begun
   plen |-> 0,
   \* history: the state, the pending bytes and the bytes in R when the drive
   \* loop last gave kCopyAck to CopyFromRemote
   ack |-> <<>>,
   \* history: the state the handler was in when the drive loop was last entered
   \* by a facade call
   entry |-> "",
   setret |-> <<>>,
   excmsg |-> <<>>,
   \* the decoded arguments were read after the arena that holds them was recycled
   stale |-> FALSE,
   \* the count of bytes read when the length prefix of the packet begun was read
   pstart |-> 0,
   \* what the global function "rpc.LocalSession" does in this process
   local_ctor |-> "local",
   \* the number of Shutdown packets Shutdown() has begun to write
   nshut |-> 0]

Ok(h) == h.err = ""

Throw(h, what) == IF Ok(h) THEN [h EXCEPT !.err = what] ELSE h

BytesNeeded(h) == IF Len(h.R) < h.pending THEN h.pending - Len(h.R) ELSE 0

RequestBytes_WithPrefix(h, nbytes) == IF Ok(h) THEN [h EXCEPT !.pending = @ + nbytes + 8] ELSE h

RequestBytes(h, nbytes) == IF Ok(h) THEN [h EXCEPT !.pending = @ + nbytes] ELSE h

Ready_Strict(h) == Len(h.R) > h.pending

Ready(h) == Len(h.R) >= h.pending

CanCleanShutdown_Header(h) == h.state \in {"RecvPacketNumBytes", "InitHeader"}

CanCleanShutdown_Packet(h) == h.state \in {"RecvPacketNumBytes", "ProcessPacket"}

CanCleanShutdown(h) == h.state = "RecvPacketNumBytes"

\* EventHandler::Read(void*, size_t)
Read(h, size) ==
  IF ~Ok(h) THEN h
  ELSE IF size > h.pending THEN Throw(h, "ICHECK_LE(size, pending_request_bytes_)")
       ELSE [h EXCEPT !.R = Drop(@, size), !.pending = @ - size, !.nread = @ + size]

\* EventHandler::Write(const void*, size_t)
Write(h, bytes) == IF Ok(h) THEN [h EXCEPT !.W = @ \o bytes] ELSE h

RecycleAll(h) == IF Ok(h) THEN [h EXCEPT !.arena = 0, !.recycles = @ + 1] ELSE h

ArenaAlloc(h) == IF Ok(h) THEN [h EXCEPT !.arena = 1] ELSE h

\* flush_writer of RPCEndpoint::Init; with channel_ reset the call is a null dereference
FlushWriter(h) ==
  IF ~Ok(h) THEN h
  ELSE IF h.W = <<>> THEN h
       ELSE IF ~h.chan THEN Throw(h, "null channel_")
            ELSE [h EXCEPT !.out = @ \o h.W, !.W = <<>>]

SwitchToState_NoFlush(h, state) ==
  IF ~Ok(h) THEN h
  ELSE IF state # "CopyAckReceived" /\ h.pending # 0 THEN Throw(h, "ICHECK_EQ(pending_request_bytes_, 0)")
  ELSE IF state = "InitHeader"
       THEN Throw([h EXCEPT !.state = state], "cannot switch to init header")
       ELSE IF state = "RecvPacketNumBytes"
            THEN RecycleAll(RequestBytes([h EXCEPT !.state = state, !.nrecv = @ + 1], 8))
            ELSE [h EXCEPT !.state = state]

SwitchToState_RecycleOnWait(h, state) ==
  IF state = "WaitForAsyncCallback" /\ Ok(h) /\ h.pending = 0 /\ h.state # state
  THEN RecycleAll([h EXCEPT !.state = state, !.nwait = @ + 1])
  ELSE SwitchToState_NoFlush(h, state)

SwitchToState(h, state) ==
  LET flushed == IF h.state = "WaitForAsyncCallback"
                 THEN [FlushWriter(h) EXCEPT !.nleft = IF state = h.state THEN @ ELSE @ + 1]
                 ELSE h
  IN
  IF ~Ok(h) THEN h
  ELSE IF state # "CopyAckReceived" /\ h.pending # 0 THEN Throw(h, "ICHECK_EQ(pending_request_bytes_, 0)")
  ELSE IF ~Ok(flushed) THEN flushed
  ELSE IF state = "InitHeader"
       THEN Throw([flushed EXCEPT !.state = state], "cannot switch to init header")
       ELSE IF state = "RecvPacketNumBytes"
            THEN RecycleAll(RequestBytes([flushed EXCEPT !.state = state, !.nrecv = @ + 1], 8))
            ELSE [flushed EXCEPT !.state = state,
                                 !.nwait = IF state = "WaitForAsyncCallback" /\ h.state # state
                                           THEN @ + 1 ELSE @]

FinishCopyAck_NoCheck(h) == SwitchToState([h EXCEPT !.pending = 0], "RecvPacketNumBytes")

FinishCopyAck(h) == SwitchToState(h, "RecvPacketNumBytes")

HandleInitHeader_NoKey(h) ==
  IF ~Ok(Read(h, 4)) THEN Read(h, 4)
  ELSE SwitchToState([Read(h, 4) EXCEPT !.init_header_step = 1], "RecvPacketNumBytes")

HandleInitHeader(h) ==
  IF h.init_header_step = 0
  THEN IF ~Ok(Read(h, 4)) THEN Read(h, 4)
       ELSE IF DecI32(Take(h.R, 4)) < 0 THEN Throw(Read(h, 4), "std::length_error")
            ELSE RequestBytes([Read(h, 4) EXCEPT !.init_header_step = 1], DecI32(Take(h.R, 4)))
  ELSE SwitchToState(IF Ok(Read(h, h.pending))
                     THEN [Read(h, h.pending) EXCEPT !.remote_key = Take(h.R, h.pending)]
                     ELSE Read(h, h.pending),
                     "RecvPacketNumBytes")

ValidateOK_Any(args) == TRUE

\* ValidateArguments: the index of no argument is an object other than an
\* RPCObjectRef or a Module, or an RPC-session device
ValidateOK(args) ==
  \A i \in 1..Len(args) :
    /\ args[i].k # "localobj"
    /\ args[i].k = "dev" => args[i].n \div kRPCSessMask = 0

ValidateArguments(h, args) == IF ValidateOK(args) THEN h ELSE Throw(h, "ValidateArguments")

\* RecvPackedSeq: the handler after the reads, and the decoded arguments
RecvPackedSeq(h) ==
  LET p == ParseSeq(Take(h.R, h.pending)) IN
  IF ~Ok(h) THEN [h |-> h, args |-> <<>>]
  ELSE IF p.ok THEN [h |-> ArenaAlloc(Read(h, p.used)), args |-> p.args]
       ELSE [h |-> Throw(h, IF p.why = "short" THEN "ICHECK_LE(size, pending_request_bytes_)"
                            ELSE "unsupported type code"),
             args |-> <<>>]

Reply(h, bytes) ==
  IF Ok(h) THEN [h EXCEPT !.W = @ \o bytes, !.nreply = @ + 1,
                          !.early = @ \/ h.recycles # h.drcy]
  ELSE h

ReturnException(h, msg) == Reply(h, Packet(RPCCode.kException, EncSeq(<<VStr(msg)>>)))

ReturnVoid(h) == Reply(h, Packet(RPCCode.kReturn, EncSeq(<<VNull>>)))

ReturnPackedSeq(h, args) == Reply(h, Packet(RPCCode.kReturn, EncSeq(args)))

FormatRemoteError_Banner(msg) == RPCErrorBanner \o msg

\* the local error HandleReturn raises for a peer's exception message
FormatRemoteError(msg) == IF ~StartsWith(msg, TimeoutPrefix) THEN RPCErrorBanner \o msg ELSE msg

\* the set_return callbacks: encode_return of CallFunc ("encode"), the one of
\* syscall_remote_ ("one": exactly one value), the empty one of the others
SetReturn(h, args) ==
  IF ~Ok(h) THEN h
  ELSE IF h.fset = "one" /\ Len(args) # 1 THEN Throw(h, "ICHECK_EQ(args.size(), 1)")
       ELSE [h EXCEPT !.setret = Append(@, args), !.stale = @ \/ h.recycles # h.drcy]

\* the exception branch of HandleReturn, h the handler after the switch of state
RaiseRemote(h, args) ==
  IF ~Ok(h) THEN h
  ELSE IF Len(args) < 1 \/ args[1].k # "str" THEN Throw(h, "bad cast")
       ELSE [h EXCEPT !.err = "RemoteError", !.errmsg = FormatRemoteError(args[1].s),
                      !.excmsg = args[1].s, !.stale = @ \/ h.recycles # h.drcy]

ReturnDecoded_NoSwitch(r, code) ==
  IF ~Ok(r.h) THEN r.h
  ELSE IF code = RPCCode.kException THEN RaiseRemote(r.h, r.args)
       ELSE SwitchToState(SetReturn(r.h, r.args), "ReturnReceived")

\* HandleReturn once the packed sequence r was received
ReturnDecoded(r, code) ==
  IF ~Ok(r.h) THEN r.h
  ELSE IF code = RPCCode.kException THEN RaiseRemote(SwitchToState(r.h, "RecvPacketNumBytes"), r.args)
       ELSE SwitchToState(SetReturn(r.h, r.args), "ReturnReceived")

HandleReturn_SetFirst(h, code) ==
  ReturnDecoded([h |-> SetReturn(RecvPackedSeq(h).h, RecvPackedSeq(h).args),
                 args |-> RecvPackedSeq(h).args], code)

HandleReturn(h, code) == ReturnDecoded(RecvPackedSeq(h), code)

GetServingSession_NoCheck(h) == h

\* GetServingSession: the handler with the failed check raised, if any
GetServingSession(h) ==
  IF ~Ok(h) THEN h
  ELSE IF h.sess = "null" THEN Throw(h, "NoSession")
       ELSE IF IsAsync(h.sess) /\ ~h.async_server_mode THEN Throw(h, "AsyncInSync")
            ELSE h

(***************************************************************************)
(* Serving a received packet.                                              *)
(***************************************************************************)
MemWrite(mem, off, data) ==
  [i \in 1..Len(mem) |-> IF i > off /\ i <= off + Len(data) THEN data[i - off] ELSE mem[i]]

MemRead(mem, off, n) == SubSeq(mem, off + 1, off + n)

CallFuncDone_NoReply(h, ok, args) ==
  SwitchToState([h EXCEPT !.ndone = @ + 1], "RecvPacketNumBytes")

\* the completion of AsyncCallFunc installed by HandleNormalCallFunc
CallFuncDone(h, ok, args) ==
  SwitchToState(IF ~ok THEN ReturnException([h EXCEPT !.ndone = @ + 1], args[1].s)
                ELSE ReturnPackedSeq(ValidateArguments([h EXCEPT !.ndone = @ + 1], args), args),
                "RecvPacketNumBytes")

\* on_copy_complete of HandleCopyToRemote
CopyToDone(h, ok, msg) ==
  SwitchToState(IF ~ok THEN ReturnException([h EXCEPT !.ndone = @ + 1], msg)
                ELSE ReturnVoid([h EXCEPT !.ndone = @ + 1]),
                "RecvPacketNumBytes")

\* fcopyack of HandleCopyFromRemote
CopyAckReply(h, data) == SwitchToState(Reply(h, Packet(RPCCode.kCopyAck, data)), "RecvPacketNumBytes")

\* on_copy_complete of HandleCopyFromRemote
CopyFromDone(h, ok, msg, data) ==
  SwitchToState(IF ~ok THEN ReturnException([h EXCEPT !.ndone = @ + 1], msg)
                ELSE Reply([h EXCEPT !.ndone = @ + 1], Packet(RPCCode.kCopyAck, data)),
                "RecvPacketNumBytes")

\* the completion of AsyncStreamWait installed by HandleSyscallStreamSync
StreamSyncDone(h, ok, msg) ==
  SwitchToState(IF ~ok THEN ReturnException([h EXCEPT !.ndone = @ + 1], msg)
                ELSE ReturnVoid([h EXCEPT !.ndone = @ + 1]),
                "RecvPacketNumBytes")

Suspend(h, op) == IF Ok(h) THEN [h EXCEPT !.inflight = op] ELSE h

\* AsyncCallFunc of the serving session, h the handler waiting for the callback
CallDispatch(h, call_handle, args, o) ==
  IF ~Ok(h) THEN h
  ELSE IF IsAsync(h.sess)
       THEN Suspend([h EXCEPT !.stale = @ \/ h.recycles # h.drcy],
                    [NoOp EXCEPT !.kind = "call", !.n = call_handle, !.args = args])
       ELSE CallFuncDone([h EXCEPT !.stale = @ \/ h.recycles # h.drcy],
                         o.ok, IF o.ok THEN o.rv ELSE <<VStr(o.msg)>>)

HandleNormalCallFunc_NoWait(h) ==
  IF h.pending < 8 THEN Read(h, 8)
  ELSE CallDispatch(GetServingSession(SwitchToState(RecvPackedSeq(Read(h, 8)).h,
                                                    "RecvPacketNumBytes")),
                    DecLE(Take(h.R, 8)), RecvPackedSeq(Read(h, 8)).args,
                    SessCall(DecLE(Take(h.R, 8)), RecvPackedSeq(Read(h, 8)).args))

HandleNormalCallFunc(h) ==
  IF h.pending < 8 THEN Read(h, 8)
  ELSE CallDispatch(GetServingSession(SwitchToState(RecvPackedSeq(Read(h, 8)).h,
                                                    "WaitForAsyncCallback")),
                    DecLE(Take(h.R, 8)), RecvPackedSeq(Read(h, 8)).args,
                    SessCall(DecLE(Take(h.R, 8)), RecvPackedSeq(Read(h, 8)).args))

\* ReceiveDLTensor: the handler after the reads of the descriptor p
ReadTensor(h, p) ==
  IF p.ok THEN Read(h, p.used)
  ELSE Throw(h, IF p.why = "short" THEN "ICHECK_LE(size, pending_request_bytes_)"
                ELSE "negative ndim")

\* the u64 at the head of R, when the packet still has eight bytes
PeekU64(h) == IF Ok(h) /\ h.pending >= 8 THEN DecLE(Take(h.R, 8)) ELSE 0

\* AsyncCopyToRemote of the serving session, h the handler waiting for the callback
CopyToDispatch(h, t, data) ==
  IF ~Ok(h) THEN h
  ELSE IF IsAsync(h.sess)
       THEN Suspend(h, [NoOp EXCEPT !.kind = "copyto", !.t = t, !.n = Len(data), !.data = data])
       ELSE IF t.off + Len(data) > Len(h.mem) THEN CopyToDone(h, FALSE, What("BadArg"))
            ELSE CopyToDone([h EXCEPT !.mem = MemWrite(@, t.off, data)], TRUE, <<>>)

CopyToBody_Overread(h, t, data_bytes) ==
  IF ~Ok(h) THEN h
  ELSE CopyToDispatch(SwitchToState([ArenaAlloc(h) EXCEPT !.R = Drop(@, data_bytes),
                                                          !.pending = 0,
                                                          !.nread = @ + data_bytes],
                                    "WaitForAsyncCallback"),
                      t, Take(h.R, IF data_bytes > Len(h.R) THEN Len(h.R) ELSE data_bytes))

\* HandleCopyToRemote, h the handler after the descriptor, data_bytes and
\* GetServingSession
CopyToBody(h, t, data_bytes) ==
  IF ~Ok(h) THEN h
  ELSE IF data_bytes > h.pending THEN Read(h, data_bytes)
  ELSE IF t.dev = kDLCPU /\ IsLocalSession(h.sess)
       THEN IF t.off + data_bytes > Len(h.mem) THEN Throw(h, "memory fault")
            ELSE SwitchToState(ReturnVoid([Read(h, data_bytes) EXCEPT
                                             !.mem = MemWrite(@, t.off, Take(h.R, data_bytes))]),
                               "RecvPacketNumBytes")
       ELSE CopyToDispatch(SwitchToState(Read(ArenaAlloc(h), data_bytes), "WaitForAsyncCallback"),
                           t, Take(h.R, data_bytes))

HandleCopyToRemote(h) ==
  LET arr == ParseTensor(Take(h.R, h.pending)) IN
  CopyToBody(GetServingSession(Read(ReadTensor(h, arr), 8)), arr.t, PeekU64(ReadTensor(h, arr)))

\* HandleCopyFromRemote, h the handler after the descriptor, data_bytes and
\* GetServingSession
CopyFromBody(h, t, data_bytes) ==
  IF ~Ok(h) THEN h
  ELSE IF t.dev = kDLCPU /\ IsLocalSession(h.sess)
       THEN IF t.off + data_bytes > Len(h.mem) THEN Throw(h, "memory fault")
            ELSE CopyAckReply(h, MemRead(h.mem, t.off, data_bytes))
       ELSE IF IsAsync(h.sess)
            THEN Suspend(SwitchToState(ArenaAlloc(h), "WaitForAsyncCallback"),
                         [NoOp EXCEPT !.kind = "copyfrom", !.t = t, !.n = data_bytes])
            ELSE IF t.off + data_bytes > Len(h.mem)
                 THEN CopyFromDone(SwitchToState(ArenaAlloc(h), "WaitForAsyncCallback"),
                                   FALSE, What("BadArg"), <<>>)
                 ELSE CopyFromDone(SwitchToState(ArenaAlloc(h), "WaitForAsyncCallback"),
                                   TRUE, <<>>, MemRead(h.mem, t.off, data_bytes))

HandleCopyFromRemote(h) ==
  LET arr == ParseTensor(Take(h.R, h.pending)) IN
  CopyFromBody(GetServingSession(Read(ReadTensor(h, arr), 8)), arr.t, PeekU64(ReadTensor(h, arr)))

InitServerTry_AnyVersion(h, ver, args, outcome) ==
  IF h.sess # "null" THEN ReturnException(h, What("AlreadyInit"))
  ELSE ReturnVoid([h EXCEPT !.sess = IF outcome \in {"missing", "fail"} THEN "local" ELSE outcome])

\* the try block of HandleInitServer: the reply written and the session installed
InitServerTry(h, ver, args, outcome) ==
  IF h.sess # "null" THEN ReturnException(h, What("AlreadyInit"))
  ELSE IF ver # kRPCProtocolVer THEN ReturnException(h, What("Version"))
  ELSE IF Len(args) = 0
       THEN \* the session is made before the constructor is looked up
            IF outcome \in {"missing", "fail"}
            THEN ReturnException([h EXCEPT !.sess = "local"],
                                 IF outcome = "missing" THEN What("NoCtor") ELSE What("CtorFailed"))
            ELSE ReturnVoid([h EXCEPT !.sess = outcome])
       ELSE IF args[1].k # "str" THEN ReturnException(h, What("BadCast"))
            ELSE IF outcome \in {"missing", "fail"}
                 THEN ReturnException(h, IF outcome = "missing" THEN What("NoCtor") ELSE What("CtorFailed"))
                 ELSE ReturnVoid([h EXCEPT !.sess = outcome])

\* HandleInitServer, r the packed sequence received
InitServerDecoded(r, ver) ==
  IF ~Ok(r.h) THEN r.h
  ELSE SwitchToState(InitServerTry(r.h, ver, r.args,
                                   \* <<76>>: "rpc.LocalSession", abbreviated
                                   CtorOutcome(r.h, IF Len(r.args) = 0 \/ r.args[1].k # "str"
                                               THEN <<76>> ELSE r.args[1].s)),
                     "RecvPacketNumBytes")

HandleInitServer(h) ==
  LET len == PeekU64(h)
      h1 == Read(h, 8)
  IN  IF ~Ok(h1) \/ len > h1.pending THEN Read(h1, len)
      ELSE InitServerDecoded(RecvPackedSeq(Read(h1, len)), Take(h1.R, len))

\* the try block of HandleSyscallStreamSync, h the handler waiting for the callback
StreamSyncDispatch(h) ==
  IF ~Ok(h) THEN h
  ELSE IF h.sess = "null" \/ (IsAsync(h.sess) /\ ~h.async_server_mode)
       THEN SwitchToState(ReturnException([h EXCEPT !.ncatch = @ + 1],
                                          What(GetServingSession(h).err)),
                          "RecvPacketNumBytes")
       ELSE IF IsAsync(h.sess) THEN Suspend(h, [NoOp EXCEPT !.kind = "sync"])
            ELSE StreamSyncDone(h, TRUE, <<>>)

HandleSyscallStreamSync(h) ==
  LET r == RecvPackedSeq(h) IN
  IF ~Ok(r.h) THEN r.h
  ELSE IF Len(r.args) < 2 \/ r.args[1].k # "dev" \/ r.args[2].k \notin {"ptr", "null"}
       THEN SwitchToState(ReturnException(r.h, What("BadCast")), "RecvPacketNumBytes")
       ELSE IF r.h.pending # 0
            \* the check of SwitchToState fails inside the try block, and again
            \* after the catch block has written the Exception
            THEN SwitchToState(ReturnException(r.h, What("ICHECK")), "RecvPacketNumBytes")
            ELSE StreamSyncDispatch(SwitchToState(r.h, "WaitForAsyncCallback"))

\* the try block of SysCallHandler: the reply written
SysCallTry(h, o) ==
  IF h.sess = "null" \/ (IsAsync(h.sess) /\ ~h.async_server_mode)
  THEN ReturnException(h, What(GetServingSession(h).err))
  ELSE IF ~o.ok THEN ReturnException(h, o.msg)
       ELSE ReturnPackedSeq(h, <<o.rv>>)

SysCallHandler(h, code) ==
  LET r == RecvPackedSeq(h) IN
  IF ~Ok(r.h) THEN r.h
  ELSE SwitchToState(SysCallTry(r.h, SessSyscall(code, r.args)), "RecvPacketNumBytes")

\* the check that ends HandleSyscall
SyscallEnd(h) ==
  IF Ok(h) /\ h.state \notin {"WaitForAsyncCallback", "RecvPacketNumBytes"}
  THEN Throw(h, "ICHECK_EQ(state_, kRecvPacketNumBytes)")
  ELSE h

HandleSyscall_ServeAll(h, code) ==
  SyscallEnd(IF code = RPCCode.kDevStreamSync THEN HandleSyscallStreamSync(h)
             ELSE SysCallHandler(h, code))

HandleSyscall(h, code) ==
  SyscallEnd(IF code \in PlainSyscalls THEN SysCallHandler(h, code)
             ELSE IF code = RPCCode.kDevStreamSync THEN HandleSyscallStreamSync(h)
             ELSE Throw(h, "Unknown event"))

\* the switch of HandleProcessPacket, h the handler after the opcode was read
Dispatch(h, code) ==
  IF ~Ok(h) THEN h
  ELSE IF code >= RPCCode.kSyscallCodeStart THEN HandleSyscall(h, code)
  ELSE CASE code = RPCCode.kInitServer -> HandleInitServer(h)
         [] code = RPCCode.kCallFunc -> HandleNormalCallFunc(h)
         [] code = RPCCode.kCopyFromRemote -> HandleCopyFromRemote(h)
         [] code = RPCCode.kCopyToRemote -> HandleCopyToRemote(h)
         [] code \in {RPCCode.kException, RPCCode.kReturn} -> HandleReturn(h, code)
         [] code = RPCCode.kCopyAck -> SwitchToState(h, "CopyAckReceived")
         [] code = RPCCode.kShutdown -> SwitchToState(h, "ShutdownReceived")
         [] OTHER -> Throw(h, "Unknown event")

HandleProcessPacket(h) ==
  IF h.pending < 4 THEN Read(h, 4)
  ELSE Dispatch([Read(h, 4) EXCEPT !.ndisp = @ + 1, !.drcy = h.recycles], DecI32(Take(h.R, 4)))

\* the condition of the while loop of HandleNextEvent
CanAdvance_NotShutdown(h) ==
  Ok(h) /\ h.state \notin {"WaitForAsyncCallback", "ShutdownReceived"} /\ Ready(h)

CanAdvance(h) == Ok(h) /\ h.state # "WaitForAsyncCallback" /\ Ready(h)

\* the while loop of HandleNextEvent: the handler it ends with and the status;
\* wait is set by the drive loop
RECURSIVE EventLoop(_)
EventLoop(h) ==
  IF ~CanAdvance(h) THEN [h |-> h, code |-> RPCCode.kNone, wait |-> FALSE]
  ELSE CASE h.state = "InitHeader" -> EventLoop(HandleInitHeader(h))
         [] h.state = "RecvPacketNumBytes" ->
              EventLoop(IF DecLE(Take(h.R, 8)) # 0
                        THEN RequestBytes([SwitchToState(Read(h, 8), "ProcessPacket")
                                             EXCEPT !.plen = DecLE(Take(h.R, 8)),
                                                    !.pstart = h.nread + 8],
                                          DecLE(Take(h.R, 8)))
                        ELSE SwitchToState(Read(h, 8), "RecvPacketNumBytes"))
         [] h.state = "ProcessPacket" -> EventLoop(HandleProcessPacket(h))
         [] h.state = "ReturnReceived" ->
              [h |-> SwitchToState(h, "RecvPacketNumBytes"), code |-> RPCCode.kReturn,
               wait |-> FALSE]
         [] h.state = "CopyAckReceived" -> [h |-> h, code |-> RPCCode.kCopyAck, wait |-> FALSE]
         [] h.state = "ShutdownReceived" -> [h |-> h, code |-> RPCCode.kShutdown, wait |-> FALSE]
         [] OTHER -> EventLoop(h)

\* the swap back of the mode flags on a normal return, h0 the handler before the call
SwapBack(r, h0) ==
  IF ~Ok(r.h) THEN r
  ELSE [r EXCEPT !.h.client_mode = h0.client_mode,
                 !.h.async_server_mode = h0.async_server_mode]

\* HandleNextEvent: the mode flags are swapped in, and swapped back on a normal return
HandleNextEvent(h, client_mode, async_server_mode, setreturn) ==
  SwapBack(EventLoop([h EXCEPT !.client_mode = client_mode,
                               !.async_server_mode = async_server_mode,
                               !.fset = setreturn]), h)

(***************************************************************************)
(* The blocking drive loop, HandleUntilReturnEvent, cut at the point where *)
(* it blocks in Recv: DriveTop is the loop from its head to the receive,   *)
(* DriveRecv is the receive and what follows it.                           *)
(***************************************************************************)
\* the loop that pushes all of W to the channel
DriveFlush(h) ==
  IF ~Ok(h) \/ h.W = <<>> THEN h
  ELSE IF ~h.chan THEN Throw(h, "null channel_")
       ELSE [h EXCEPT !.out = @ \o h.W, !.W = <<>>]

DriveTop_NoFlush(h, client_mode, setreturn) ==
  IF BytesNeeded(h) # 0 THEN [h |-> h, code |-> RPCCode.kNone, wait |-> TRUE]
  ELSE HandleNextEvent(h, client_mode, FALSE, setreturn)

\* the drive loop from its head to the receive
DriveTop(h, client_mode, setreturn) ==
  IF ~Ok(DriveFlush(h)) THEN [h |-> DriveFlush(h), code |-> RPCCode.kNone, wait |-> FALSE]
  ELSE IF BytesNeeded(h) # 0 THEN [h |-> DriveFlush(h), code |-> RPCCode.kNone, wait |-> TRUE]
       ELSE HandleNextEvent(DriveFlush(h), client_mode, FALSE, setreturn)

ChannelClosed_Always(h) == [h |-> h, code |-> RPCCode.kShutdown, wait |-> FALSE]

\* what the drive loop does with n = 0 bytes received
ChannelClosed(h) ==
  IF CanCleanShutdown(h) THEN [h |-> h, code |-> RPCCode.kShutdown, wait |-> FALSE]
  ELSE [h |-> Throw(h, "Channel closes before we get needed bytes"), code |-> RPCCode.kNone, wait |-> FALSE]

DriveRecv(h, bytes, client_mode, setreturn) ==
  IF ~h.chan THEN [h |-> Throw(h, "null channel_"), code |-> RPCCode.kNone, wait |-> FALSE]
  ELSE IF bytes = <<>> THEN ChannelClosed(h)
       ELSE HandleNextEvent([h EXCEPT !.R = @ \o bytes], client_mode, FALSE, setreturn)

\* the loop condition of HandleUntilReturnEvent, negated
DriveDone(code) == code \in {RPCCode.kReturn, RPCCode.kShutdown, RPCCode.kCopyAck}

ClearErr(h) == [h EXCEPT !.err = "", !.errmsg = <<>>]

(***************************************************************************)
(* State.  ep["c"] is the endpoint the client threads call, ep["s"] the    *)
(* endpoint that serves; each receives what the other has sent (out).      *)
(***************************************************************************)
VARIABLES ep, thr, mutex, srv, env, wlog, lockOrder

vars == <<ep, thr, mutex, srv, env, wlog, lockOrder>>

Threads == {1, 2}

Peer(e) == IF e = "c" THEN "s" ELSE "c"

\* the tensor both sides know: MemSize bytes of host memory on the server
HostTensor(off) == Tensor(kDLCPU, 1, <<MemSize>>, 8, off)

\* the same memory reached as a device tensor
DevTensor(off) == Tensor(2, 1, <<MemSize>>, 8, off)

NoTensor == Tensor(0, 0, <<>>, 0, 0)

Op(kind, n, args, t, data) == [kind |-> kind, n |-> n, args |-> args, t |-> t, data |-> data]

\* the facade calls a client thread may issue; the second thread has the
\* shorter list
CallMenu(t) ==
  {Op("call", 1, <<VInt(t)>>, NoTensor, <<>>),
   Op("call", 2, <<>>, NoTensor, <<>>),
   Op("copyfrom", 1, <<>>, HostTensor(t - 1), <<>>)}
  \cup IF t # 1 THEN {}
       ELSE {Op("init", 0, <<>>, NoTensor, <<>>),
             Op("call", 3, <<>>, NoTensor, <<>>),
             Op("call", 1, <<Val("localobj", 0)>>, NoTensor, <<>>),
             Op("call", 1, <<VInt(1), Val("dev", kRPCSessMask + kDLCPU)>>, NoTensor, <<>>),
             Op("syscall", RPCCode.kGetGlobalFunc, <<VStr(<<101>>)>>, NoTensor, <<>>),
             Op("copyto", 1, <<>>, HostTensor(t - 1), <<10 + t>>)}

\* the opcode, the body of the request packet and the set_return callback of a call
OpCode(op) ==
  CASE op.kind = "init" -> RPCCode.kInitServer
    [] op.kind = "call" -> RPCCode.kCallFunc
    [] op.kind = "copyto" -> RPCCode.kCopyToRemote
    [] op.kind = "copyfrom" -> RPCCode.kCopyFromRemote
    [] OTHER -> op.n

OpBody(op) ==
  CASE op.kind = "init" -> LE(Len(kRPCProtocolVer), 8) \o kRPCProtocolVer \o EncSeq(op.args)
    [] op.kind = "call" -> LE(op.n, 8) \o EncSeq(op.args)
    [] op.kind = "copyto" -> EncTensor(op.t) \o LE(op.n, 8) \o op.data
    [] op.kind = "copyfrom" -> EncTensor(op.t) \o LE(op.n, 8)
    [] OTHER -> EncSeq(op.args)

\* packet_nbytes as each facade method computes it
OpPacketBytes(op) ==
  CASE op.kind = "init" -> 4 + 8 + Len(kRPCProtocolVer) + PackedSeqGetNumBytes(op.args)
    [] op.kind = "call" -> 4 + 8 + PackedSeqGetNumBytes(op.args)
    [] op.kind = "copyto" -> RemoteCopyCalculatePacketOverheadSize(op.t) + op.n
    [] op.kind = "copyfrom" -> RemoteCopyCalculatePacketOverheadSize(op.t)
    [] OTHER -> 4 + PackedSeqGetNumBytes(op.args)

OpSetReturn(op) ==
  CASE op.kind = "call" -> "encode"
    [] op.kind = "syscall" -> "one"
    [] OTHER -> "noop"

\* the checks a facade method makes before it writes: "" when they pass
OpPrecheck(op) ==
  CASE op.kind = "call" ->
         IF ~ValidateOK(op.args) THEN "ValidateArguments"
         ELSE IF \E i \in 1..Len(op.args) : ~Sendable(op.args[i]) THEN "unsupported object"
         ELSE ""
    [] op.kind \in {"copyto", "copyfrom"} ->
         IF op.t.off + op.n > GetDataSize(op.t) THEN "overflow in tensor size" ELSE ""
    [] OTHER -> IF \E i \in 1..Len(op.args) : ~Sendable(op.args[i]) THEN "unsupported object" ELSE ""

\* a client thread: where it is in its facade call, the call, and how the call
\* ended: the value returned, the error raised and its message, the event the
\* drive loop returned, the number of set_return calls, the message of the
\* Exception packet received, and whether the call was entered after Shutdown()
\* had reset the channel
NewThread ==
  [pc |-> "idle", op |-> Op("none", 0, <<>>, NoTensor, <<>>), nops |-> 0, rv |-> <<>>, err |-> "", errmsg |-> <<>>,
   code |-> RPCCode.kNone, nset |-> 0, excmsg |-> <<>>, late |-> FALSE]

InitCommon ==
  /\ thr = [t \in Threads |-> NewThread]
  /\ mutex = 0
  \* the server: where it is, the error raised out of it, the event its drive loop
  \* returned, the handler state in which a receive reported 0 bytes, the value
  \* ServerAsyncIOEventHandler returned last
  /\ srv = [pc |-> "top", err |-> "", code |-> RPCCode.kNone, eof |-> "", ret |-> 1]
  \* the scripted peer: the number of packets it has sent
  /\ env = [sent |-> 0]
  /\ wlog = <<>>
  /\ lockOrder = <<>>
  \* the calls on offer are fixed before any thread runs
  /\ \A t \in Threads : CallMenu(t) = CallMenu(t)

(***************************************************************************)
(* A facade call of a client thread: CallFunc, InitRemoteSession,          *)
(* syscall_remote_, CopyToRemote, CopyFromRemote.                          *)
(***************************************************************************)
CanLock_NoMutex(t) == TRUE

\* std::lock_guard: the mutex can be taken when no thread holds it
CanLock(t) == mutex = 0

\* take the mutex and make the checks that precede the first write
Begin(t, op) ==
  /\ thr[t].pc = "idle"
  /\ thr[t].nops < MaxOps
  /\ CanLock(t)
  /\ lockOrder' = Append(lockOrder, <<t, thr[t].nops + 1>>)
  /\ IF OpPrecheck(op) # ""
     THEN /\ thr' = [thr EXCEPT ![t] = [NewThread EXCEPT !.op = op, !.err = OpPrecheck(op),
                                                         !.nops = thr[t].nops + 1,
                                                         !.late = ~ep["c"].chan]]
          /\ UNCHANGED mutex
     ELSE /\ thr' = [thr EXCEPT ![t] = [NewThread EXCEPT !.pc = "w_len", !.op = op,
                                                         !.nops = thr[t].nops + 1,
                                                         !.late = ~ep["c"].chan]]
          /\ mutex' = t
  /\ UNCHANGED <<ep, srv, env, wlog>>

BeginCall(t) == \E op \in CallMenu(t) : Begin(t, op)

\* handler_->Write(packet_nbytes)
WriteLen(t) ==
  /\ thr[t].pc = "w_len"
  /\ ep' = [ep EXCEPT !["c"] = Write(@, LE(OpPacketBytes(thr[t].op), 8))]
  /\ wlog' = Append(wlog, <<t, thr[t].nops, "len">>)
  /\ thr' = [thr EXCEPT ![t].pc = "w_code"]
  /\ UNCHANGED <<mutex, srv, env, lockOrder>>

\* handler_->Write(code)
WriteCode(t) ==
  /\ thr[t].pc = "w_code"
  /\ ep' = [ep EXCEPT !["c"] = Write(@, LE(OpCode(thr[t].op), 4))]
  /\ wlog' = Append(wlog, <<t, thr[t].nops, "code">>)
  /\ thr' = [thr EXCEPT ![t].pc = "w_body"]
  /\ UNCHANGED <<mutex, srv, env, lockOrder>>

\* the end of a facade call: the mutex is released on return and on a throw; h is
\* the handler the call ends with, code the event the drive loop returned
Leave(t, h, code, err, errmsg, rv) ==
  /\ thr' = [thr EXCEPT ![t] = [@ EXCEPT !.pc = "idle", !.err = err, !.errmsg = errmsg,
                                          !.rv = rv, !.code = code,
                                          !.nset = Len(h.setret), !.excmsg = h.excmsg]]
  /\ mutex' = IF mutex = t THEN 0 ELSE mutex

\* what a facade method does with the event the drive loop returned; q is ep with
\* the received bytes taken from the channel
Finish(t, q, h, code) ==
  LET copied == FinishCopyAck(Read([h EXCEPT !.ack = <<h.state, h.pending, Len(h.R)>>],
                                   thr[t].op.n)) IN
  IF thr[t].op.kind = "copyfrom"
  THEN IF code # RPCCode.kCopyAck
       THEN /\ ep' = [q EXCEPT !["c"] = h]
            /\ Leave(t, h, code, "ICHECK(code == kCopyAck)", <<>>, <<>>)
       ELSE /\ ep' = [q EXCEPT !["c"] = ClearErr(copied)]
            /\ Leave(t, copied, code, copied.err, <<>>,
                     IF Ok(copied) THEN Take(h.R, thr[t].op.n) ELSE <<>>)
  ELSE /\ ep' = [q EXCEPT !["c"] = h]
       /\ IF code # RPCCode.kReturn THEN Leave(t, h, code, "ICHECK(code == kReturn)", <<>>, <<>>)
          ELSE Leave(t, h, code, "", <<>>,
                     IF h.setret = <<>> THEN <<>> ELSE h.setret[Len(h.setret)])

\* what the read of an argument array gives: its bytes, or, when the arena that
\* holds it was recycled before the read, whatever the memory holds by then
StaleRead(h) ==
  IF h.stale /\ h.err = "RemoteError" THEN {h.errmsg, FormatRemoteError(<<0>>)}
  ELSE {h.errmsg}

\* one turn of the drive loop of a client thread, r what DriveTop or DriveRecv gave
AfterDrive(t, q, r) ==
  IF ~Ok(r.h)
  THEN /\ ep' = [q EXCEPT !["c"] = ClearErr(r.h)]
       /\ \E m \in StaleRead(r.h) : Leave(t, r.h, RPCCode.kNone, r.h.err, m, <<>>)
  ELSE IF r.wait
       THEN /\ ep' = [q EXCEPT !["c"] = r.h]
            /\ thr' = [thr EXCEPT ![t].pc = "recv"]
            /\ UNCHANGED mutex
       ELSE IF DriveDone(r.code) THEN Finish(t, q, r.h, r.code)
            ELSE /\ ep' = [q EXCEPT !["c"] = r.h]
                 /\ thr' = [thr EXCEPT ![t].pc = "top"]
                 /\ UNCHANGED mutex

\* the last write of the request, and the entry of HandleUntilReturnEvent
WriteBody_NoChannelCheck(t) ==
  /\ thr[t].pc = "w_body"
  /\ wlog' = Append(wlog, <<t, thr[t].nops, "body">>)
  /\ ep' = [ep EXCEPT !["c"] = [Write(@, OpBody(thr[t].op)) EXCEPT !.setret = <<>>,
                                                                  !.excmsg = <<>>,
                                                                  !.entry = ep["c"].state]]
  /\ thr' = [thr EXCEPT ![t].pc = "top"]
  /\ UNCHANGED <<mutex, srv, env, lockOrder>>

WriteBody(t) ==
  /\ thr[t].pc = "w_body"
  /\ wlog' = Append(wlog, <<t, thr[t].nops, "body">>)
  /\ ep' = [ep EXCEPT !["c"] = [Write(@, OpBody(thr[t].op)) EXCEPT !.setret = <<>>,
                                                                  !.excmsg = <<>>,
                                                                  !.entry = ep["c"].state]]
  /\ IF ~ep["c"].chan
     THEN Leave(t, NewEndpoint(FALSE, "null"), RPCCode.kNone, "connection was previously closed",
                <<>>, <<>>)
     ELSE /\ thr' = [thr EXCEPT ![t].pc = "top"]
          /\ UNCHANGED mutex
  /\ UNCHANGED <<srv, env, lockOrder>>

ClientTop(t) ==
  /\ thr[t].pc = "top"
  /\ AfterDrive(t, ep, DriveTop(ep["c"], TRUE, OpSetReturn(thr[t].op)))
  /\ UNCHANGED <<srv, env, wlog, lockOrder>>

Min(a, b) == IF a < b THEN a ELSE b

\* the bytes a Recv of at most need bytes may return: all it can of what the peer
\* has sent or, a short read, half of that; nothing once the peer has closed and
\* all it sent was received
RecvChoices(e, need) ==
  IF ep[Peer(e)].out # <<>>
  THEN {Take(ep[Peer(e)].out, n) :
          n \in {Min(need, Len(ep[Peer(e)].out)), (Min(need, Len(ep[Peer(e)].out)) + 1) \div 2}}
  ELSE IF ~ep[Peer(e)].chan THEN {<<>>} ELSE {}

ClientRecv(t) ==
  /\ thr[t].pc = "recv"
  /\ \E bytes \in RecvChoices("c", BytesNeeded(ep["c"])) :
       AfterDrive(t, [ep EXCEPT !["s"].out = Drop(@, Len(bytes))],
                  DriveRecv(ep["c"], bytes, TRUE, OpSetReturn(thr[t].op)))
  /\ UNCHANGED <<srv, env, wlog, lockOrder>>

(***************************************************************************)
(* Shutdown() called by a client thread.  It takes no mutex.               *)
(***************************************************************************)
\* the test of channel_ and handler_->Write(packet_nbytes)
BeginShutdown(t) ==
  /\ thr[t].pc = "idle"
  /\ thr[t].nops < MaxOps
  /\ IF ep["c"].chan
     THEN /\ ep' = [ep EXCEPT !["c"] = [Write(@, LE(4, 8)) EXCEPT !.nshut = @ + 1]]
          /\ wlog' = Append(wlog, <<t, thr[t].nops + 1, "len">>)
          /\ thr' = [thr EXCEPT ![t] = [NewThread EXCEPT !.pc = "sd_code", !.op.kind = "shutdown",
                                                         !.nops = thr[t].nops + 1]]
     ELSE /\ thr' = [thr EXCEPT ![t] = [NewThread EXCEPT !.op.kind = "shutdown",
                                                         !.err = "no channel",
                                                         !.nops = thr[t].nops + 1]]
          /\ UNCHANGED <<ep, wlog>>
  /\ UNCHANGED <<mutex, srv, env, lockOrder>>

\* handler_->Write(code)
ShutWriteCode(t) ==
  /\ thr[t].pc = "sd_code"
  /\ ep' = [ep EXCEPT !["c"] = Write(@, LE(RPCCode.kShutdown, 4))]
  /\ wlog' = Append(wlog, <<t, thr[t].nops, "code">>)
  /\ thr' = [thr EXCEPT ![t].pc = "sd_flush"]
  /\ UNCHANGED <<mutex, srv, env, lockOrder>>

\* the flush of W and channel_.reset(nullptr)
ShutFlushClose(t) ==
  /\ thr[t].pc = "sd_flush"
  /\ ep' = [ep EXCEPT !["c"] = [@ EXCEPT !.out = IF ep["c"].chan THEN @ \o ep["c"].W ELSE @,
                                         !.W = IF ep["c"].chan THEN <<>> ELSE @,
                                         !.chan = FALSE]]
  /\ thr' = [thr EXCEPT ![t].pc = "idle"]
  /\ UNCHANGED <<mutex, srv, env, wlog, lockOrder>>

(***************************************************************************)
(* ServerLoop on ep["s"].                                                  *)
(***************************************************************************)
ServerLoopCheck_Any(code) == TRUE

\* the check ServerLoop makes on the event its drive loop returned
ServerLoopCheck(code) == code = RPCCode.kShutdown

\* one turn of the drive loop of ServerLoop, r what DriveTop or DriveRecv gave, and
\* the end of ServerLoop when the drive loop returns; q is ep with the received
\* bytes taken from the channel, eof the handler state if the receive reported 0
\* bytes
ServerAfter(q, r, eof) ==
  IF ~Ok(r.h)
  THEN /\ ep' = [q EXCEPT !["s"] = ClearErr(r.h)]
       /\ srv' = [srv EXCEPT !.pc = "error", !.err = r.h.err, !.eof = eof]
  ELSE IF r.wait
       THEN /\ ep' = [q EXCEPT !["s"] = r.h]
            /\ srv' = [srv EXCEPT !.pc = "recv"]
       ELSE IF ~DriveDone(r.code)
            THEN /\ ep' = [q EXCEPT !["s"] = r.h]
                 /\ srv' = [srv EXCEPT !.pc = "top"]
            ELSE IF ServerLoopCheck(r.code)
                 THEN /\ ep' = [q EXCEPT !["s"] = [r.h EXCEPT !.chan = FALSE]]
                      /\ srv' = [srv EXCEPT !.pc = "returned", !.code = r.code, !.eof = eof]
                 ELSE /\ ep' = [q EXCEPT !["s"] = r.h]
                      /\ srv' = [srv EXCEPT !.pc = "error", !.code = r.code, !.eof = eof,
                                            !.err = "ICHECK(HandleUntilReturnEvent == kShutdown)"]

ServerTop ==
  /\ srv.pc = "top"
  /\ ServerAfter(ep, DriveTop(ep["s"], FALSE, "noop"), "")
  /\ UNCHANGED <<thr, mutex, env, wlog, lockOrder>>

ServerRecv ==
  /\ srv.pc = "recv"
  /\ \E bytes \in RecvChoices("s", BytesNeeded(ep["s"])) :
       ServerAfter([ep EXCEPT !["c"].out = Drop(@, Len(bytes))],
                   DriveRecv(ep["s"], bytes, FALSE, "noop"),
                   IF bytes = <<>> THEN ep["s"].state ELSE "")
  /\ UNCHANGED <<thr, mutex, env, wlog, lockOrder>>

(***************************************************************************)
(* ServerAsyncIOEventHandler on ep["s"], and the completion of the         *)
(* operation its asynchronous serving session has in flight.               *)
(***************************************************************************)
AsyncIOEnd_WantRead(q, h, code) ==
  IF ~Ok(h)
  THEN /\ ep' = [q EXCEPT !["s"] = ClearErr(h)]
       /\ srv' = [srv EXCEPT !.pc = "error", !.err = h.err]
  ELSE /\ ep' = [q EXCEPT !["s"] = h]
       /\ srv' = [srv EXCEPT !.pc = IF code = RPCCode.kShutdown THEN "returned" ELSE "top",
                             !.code = code,
                             !.ret = IF code = RPCCode.kShutdown THEN 0 ELSE 1]

\* the end of ServerAsyncIOEventHandler, and of a completion: the check of the
\* event and the value returned; q is ep, h the handler, code the event
AsyncIOEnd(q, h, code) ==
  IF ~Ok(h)
  THEN /\ ep' = [q EXCEPT !["s"] = ClearErr(h)]
       /\ srv' = [srv EXCEPT !.pc = "error", !.err = h.err]
  ELSE IF code \in {RPCCode.kReturn, RPCCode.kCopyAck}
       THEN /\ ep' = [q EXCEPT !["s"] = h]
            /\ srv' = [srv EXCEPT !.pc = "error", !.code = code,
                                  !.err = "ICHECK(code != kReturn && code != kCopyAck)"]
       ELSE /\ ep' = [q EXCEPT !["s"] = h]
            /\ srv' = [srv EXCEPT !.pc = IF code = RPCCode.kShutdown THEN "returned" ELSE "top",
                                  !.code = code,
                                  !.ret = IF code = RPCCode.kShutdown THEN 0
                                          ELSE IF h.W # <<>> THEN 2 ELSE 1]

\* ServerAsyncIOEventHandler after the event was handled: the send of W when the
\* event flag has the write bit, and the end
AsyncIOHandled(q, r, event_flag) ==
  AsyncIOEnd(q,
             IF Ok(r.h) /\ (event_flag \div 2) % 2 = 1 /\ r.h.W # <<>> THEN DriveFlush(r.h)
             ELSE r.h,
             r.code)

\* in_bytes is nothing, all, or half of what the peer has sent
ServerAsyncIOEventHandler ==
  /\ srv.pc = "top"
  /\ \E n \in {0, (Len(ep["c"].out) + 1) \div 2, Len(ep["c"].out)}, event_flag \in {1, 2, 3} :
       AsyncIOHandled([ep EXCEPT !["c"].out = Drop(@, n)],
                      IF n # 0
                      THEN HandleNextEvent([ep["s"] EXCEPT !.R = @ \o Take(ep["c"].out, n)],
                                           FALSE, TRUE, "noop")
                      ELSE [h |-> ep["s"], code |-> RPCCode.kNone],
                      event_flag)
  /\ UNCHANGED <<thr, mutex, env, wlog, lockOrder>>

\* ServerAsyncIOEventHandler called again with bytes that arrived after it has
\* returned 0: the endpoint does not refuse the call
ServerAsyncIOAfterShutdown ==
  /\ srv.pc = "returned"
  /\ \E n \in {(Len(ep["c"].out) + 1) \div 2, Len(ep["c"].out)} \ {0}, event_flag \in {1, 2, 3} :
       AsyncIOHandled([ep EXCEPT !["c"].out = Drop(@, n)],
                      HandleNextEvent([ep["s"] EXCEPT !.R = @ \o Take(ep["c"].out, n)],
                                      FALSE, TRUE, "noop"),
                      event_flag)
  /\ UNCHANGED <<thr, mutex, env, wlog, lockOrder>>

\* the callback of the operation in flight, called by the serving session
Completion(h, op, ok) ==
  CASE op.kind = "call" ->
         CallFuncDone(h, ok, IF ok THEN SessCall(1, op.args).rv ELSE <<VStr(MsgBoom)>>)
    [] op.kind = "copyto" ->
         IF ok /\ op.t.off + op.n <= Len(h.mem)
         THEN CopyToDone([h EXCEPT !.mem = MemWrite(@, op.t.off, op.data)], TRUE, <<>>)
         ELSE CopyToDone(h, FALSE, MsgBoom)
    [] op.kind = "copyfrom" ->
         IF ok /\ op.t.off + op.n <= Len(h.mem)
         THEN CopyFromDone(h, TRUE, <<>>, MemRead(h.mem, op.t.off, op.n))
         ELSE CopyFromDone(h, FALSE, MsgBoom, <<>>)
    [] OTHER -> StreamSyncDone(h, ok, MsgBoom)

\* the asynchronous session completes the operation, with success or with failure
AsyncComplete ==
  /\ srv.pc = "top"
  /\ ep["s"].inflight.kind # "none"
  /\ \E ok \in BOOLEAN :
       AsyncIOEnd(ep, Completion([ep["s"] EXCEPT !.inflight = NoOp], ep["s"].inflight, ok), RPCCode.kNone)
  /\ UNCHANGED <<thr, mutex, env, wlog, lockOrder>>

(***************************************************************************)
(* RPCClientSession over ep["c"]: copies cut into single-packet transfers. *)
(* The session is the record cs: chunk is rpc_chunk_max_size_bytes_, peer  *)
(* what tvm.rpc.server.GetCRTMaxPacketSize is on the peer (has: it is      *)
(* registered, max: the value it returns), lookups and calls count the     *)
(* GetFunction and CallFunc made for it; pc, dir, nbytes, payload, k       *)
(* (block_count), t (the tensor), buf (local_to_bytes) are the copy under  *)
(* way; log lists its transfers, err is the error it raised, prev the copy *)
(* before it.  One transfer is one call of the endpoint's CopyToRemote or  *)
(* CopyFromRemote, taken as a single step.                                 *)
(***************************************************************************)
\* the built-in default of the maximum packet size, scaled to the model: the
\* overhead of a one-dimensional tensor and a block of two bytes
kRPCMaxTransferSizeBytesDefault == 54

GetRPCMaxTransferSize_NoCache(cs) ==
  IF ~cs.peer.has
  THEN [cs EXCEPT !.lookups = @ + 1, !.chunk = kRPCMaxTransferSizeBytesDefault]
  ELSE [cs EXCEPT !.lookups = @ + 1, !.calls = @ + 1, !.chunk = cs.peer.max,
                  !.err = IF cs.peer.max > 0 THEN "" ELSE "RPC max transfer size is <= 0"]

\* GetRPCMaxTransferSize: the session after it, chunk the value returned
GetRPCMaxTransferSize(cs) ==
  IF cs.chunk > 0 THEN cs
  ELSE IF ~cs.peer.has
       THEN [cs EXCEPT !.lookups = @ + 1, !.chunk = kRPCMaxTransferSizeBytesDefault]
       ELSE [cs EXCEPT !.lookups = @ + 1, !.calls = @ + 1, !.chunk = cs.peer.max,
                       !.err = IF cs.peer.max > 0 THEN "" ELSE "RPC max transfer size is <= 0"]

\* the head of RPCClientSession::CopyToRemote and CopyFromRemote, cs the session
\* after GetRPCMaxTransferSize
SessBegun(cs, dir, nbytes, payload) ==
  IF cs.err # "" THEN cs
  ELSE IF ~(cs.chunk > RemoteCopyCalculatePacketOverheadSize(cs.t))
       THEN [cs EXCEPT !.err = "Invalid block size"]
       ELSE [cs EXCEPT !.pc = dir, !.dir = dir, !.nbytes = nbytes, !.payload = payload,
                       !.k = 0, !.buf = [i \in 1..nbytes |-> 0]]

\* a client calls CopyToRemote or CopyFromRemote of the session
SessBegin ==
  /\ env.pc = "idle"
  /\ env.ncopies < MaxCopies
  /\ \E dir \in {"to", "from"}, nbytes \in 0..MaxCopyBytes, base \in {20, 40} :
       env' = SessBegun(GetRPCMaxTransferSize(
                          [env EXCEPT !.ncopies = @ + 1, !.err = "", !.log = <<>>,
                                      !.prev = [dir |-> env.dir, nbytes |-> env.nbytes,
                                                payload |-> env.payload, buf |-> env.buf,
                                                err |-> env.err]]),
                        dir, nbytes,
                        IF dir = "to" THEN [i \in 1..nbytes |-> base + i] ELSE <<>>)
  /\ UNCHANGED <<ep, thr, mutex, srv, wlog, lockOrder>>

ChunkOp_FirstBytes(cs, n) ==
  Op(IF cs.dir = "to" THEN "copyto" ELSE "copyfrom", n, <<>>,
     [cs.t EXCEPT !.off = cs.k * (cs.chunk - RemoteCopyCalculatePacketOverheadSize(cs.t))],
     IF cs.dir = "to" THEN SubSeq(cs.payload, 1, n) ELSE <<>>)

\* the call of the endpoint for the transfer of n bytes at block k
ChunkOp(cs, n) ==
  Op(IF cs.dir = "to" THEN "copyto" ELSE "copyfrom", n, <<>>,
     [cs.t EXCEPT !.off = cs.k * (cs.chunk - RemoteCopyCalculatePacketOverheadSize(cs.t))],
     IF cs.dir = "to"
     THEN SubSeq(cs.payload,
                 cs.k * (cs.chunk - RemoteCopyCalculatePacketOverheadSize(cs.t)) + 1,
                 cs.k * (cs.chunk - RemoteCopyCalculatePacketOverheadSize(cs.t)) + n)
     ELSE <<>>)

\* the end of a transfer: s the serving handler after it has served the request
\* and sent what it replied, r the event the client's drive loop returned
SessReplied(s, r, op) ==
  IF ~Ok(s) \/ ~Ok(r.h) \/ r.code # (IF op.kind = "copyto" THEN RPCCode.kReturn ELSE RPCCode.kCopyAck)
  THEN /\ ep' = [c |-> ClearErr(r.h), s |-> ClearErr([s EXCEPT !.out = <<>>])]
       /\ env' = [env EXCEPT !.pc = "idle", !.err = "transfer failed"]
  ELSE /\ ep' = [c |-> IF op.kind = "copyto" THEN r.h ELSE FinishCopyAck(Read(r.h, op.n)),
                 s |-> [s EXCEPT !.out = <<>>]]
       /\ env' = [env EXCEPT !.k = @ + 1,
                             !.t = op.t,
                             !.buf = IF op.kind = "copyto" THEN @
                                     ELSE MemWrite(@, op.t.off, Take(r.h.R, op.n)),
                             !.log = Append(@, [off |-> op.t.off, n |-> op.n,
                                                req |-> 4 + Len(OpBody(op)),
                                                ack |-> Len(s.out) - 8])]

\* one transfer: the request goes to the serving handler, what it replies to the
\* client's handler
SessTransfer(op) ==
  IF OpPrecheck(op) # ""
  THEN /\ env' = [env EXCEPT !.pc = "idle", !.err = OpPrecheck(op), !.t = op.t]
       /\ UNCHANGED ep
  ELSE SessReplied(DriveFlush(HandleNextEvent(
                                [ep["s"] EXCEPT !.R = LE(OpPacketBytes(op), 8)
                                                       \o LE(OpCode(op), 4) \o OpBody(op)],
                                FALSE, FALSE, "noop").h),
                   HandleNextEvent(
                     [ep["c"] EXCEPT !.R = DriveFlush(HandleNextEvent(
                                             [ep["s"] EXCEPT !.R = LE(OpPacketBytes(op), 8)
                                                                    \o LE(OpCode(op), 4)
                                                                    \o OpBody(op)],
                                             FALSE, FALSE, "noop").h).out],
                     TRUE, FALSE, "noop"),
                   op)

SessChunk_WholeMax ==
  /\ env.pc \in {"to", "from"}
  /\ LET block_size == env.chunk IN
     IF env.k < env.nbytes \div block_size
     THEN SessTransfer(ChunkOp(env, block_size))
     ELSE IF env.k = env.nbytes \div block_size /\ env.nbytes % block_size # 0
          THEN SessTransfer(ChunkOp(env, env.nbytes % block_size))
          ELSE /\ env' = [env EXCEPT !.pc = "idle"]
               /\ UNCHANGED ep
  /\ UNCHANGED <<thr, mutex, srv, wlog, lockOrder>>

SessChunk_NoRemainder ==
  /\ env.pc \in {"to", "from"}
  /\ LET block_size == env.chunk - RemoteCopyCalculatePacketOverheadSize(env.t) IN
     IF env.k < env.nbytes \div block_size
     THEN SessTransfer(ChunkOp(env, block_size))
     ELSE /\ env' = [env EXCEPT !.pc = "idle"]
          /\ UNCHANGED ep
  /\ UNCHANGED <<thr, mutex, srv, wlog, lockOrder>>

\* the loop over the whole blocks and the transfer of the remainder
SessChunk ==
  /\ env.pc \in {"to", "from"}
  /\ LET block_size == env.chunk - RemoteCopyCalculatePacketOverheadSize(env.t) IN
     IF env.k < env.nbytes \div block_size
     THEN SessTransfer(ChunkOp(env, block_size))
     ELSE IF env.k = env.nbytes \div block_size /\ env.nbytes % block_size # 0
          THEN SessTransfer(ChunkOp(env, env.nbytes % block_size))
          ELSE /\ env' = [env EXCEPT !.pc = "idle"]
               /\ UNCHANGED ep
  /\ UNCHANGED <<thr, mutex, srv, wlog, lockOrder>>

(***************************************************************************)
(* A scripted peer in the place of ep["c"]: it puts bytes on the channel   *)
(* to ep["s"] and closes it.                                               *)
(***************************************************************************)
\* the init header: the length of the key and the key
InitHeader == LE(1, 4) \o <<107>>

\* packets a peer may send to a server in ServerLoop
PeerMenu ==
  {InitHeader,
   LE(0, 8),
   Packet(RPCCode.kShutdown, <<>>),
   Packet(RPCCode.kReturn, EncSeq(<<VInt(1)>>)),
   Packet(RPCCode.kException, EncSeq(<<VStr(MsgBoom)>>)),
   Packet(RPCCode.kCopyAck, <<5>>),
   Packet(RPCCode.kCallFunc, LE(1, 8) \o EncSeq(<<VInt(1)>>)),
   Packet(RPCCode.kNone, <<>>)}

\* the requests a peer may send to a server with an asynchronous session
AsyncMenu ==
  {Packet(RPCCode.kCallFunc, LE(1, 8) \o EncSeq(<<VInt(1)>>)),
   Packet(RPCCode.kCallFunc, LE(1, 8) \o EncSeq(<<Val("dev", kRPCSessMask + kDLCPU)>>)),
   Packet(RPCCode.kCopyToRemote, EncTensor(DevTensor(0)) \o LE(1, 8) \o <<9>>),
   Packet(RPCCode.kCopyToRemote, EncTensor(DevTensor(0)) \o LE(2, 8) \o <<9>>),
   Packet(RPCCode.kCopyFromRemote, EncTensor(DevTensor(0)) \o LE(1, 8)),
   Packet(RPCCode.kDevStreamSync, EncSeq(<<Val("dev", 2), VNull>>)),
   Packet(RPCCode.kGetGlobalFunc, EncSeq(<<VStr(<<101>>)>>)),
   Packet(RPCCode.kReturn, EncSeq(<<VInt(1)>>)),
   Packet(RPCCode.kCopyAck, <<5>>),
   Packet(RPCCode.kShutdown, <<>>)}

\* an InitServer packet with the protocol version ver and the constructor
\* arguments args
InitServerPacket(ver, args) ==
  Packet(RPCCode.kInitServer, LE(Len(ver), 8) \o ver \o EncSeq(args))

\* packets a peer may send to a server whose session it has yet to set up:
\* InitServer with a wrong version (of the right and of another length) and with
\* the right one, requests, requests with one byte more than their handler
\* reads, and opcodes no handler serves
ProtoMenu ==
  {InitServerPacket(<<48, 46, 55>>, <<>>),
   InitServerPacket(<<48>>, <<>>),
   InitServerPacket(kRPCProtocolVer, <<>>),
   Packet(RPCCode.kCallFunc, LE(1, 8) \o EncSeq(<<VInt(1)>>)),
   Packet(RPCCode.kCopyFromRemote, EncTensor(HostTensor(0)) \o LE(1, 8)),
   Packet(RPCCode.kSyscallCodeStart, EncSeq(<<VStr(<<101>>)>>)),
   Packet(RPCCode.kCallFunc, LE(1, 8) \o EncSeq(<<VInt(1)>>) \o <<0>>),
   Packet(RPCCode.kCopyFromRemote, EncTensor(HostTensor(0)) \o LE(1, 8) \o <<0>>),
   Packet(RPCCode.kSyscallCodeStart, EncSeq(<<VStr(<<101>>)>>) \o <<0>>),
   Packet(RPCCode.kNone, <<>>),
   Packet(RPCCode.kDevAllocDataWithScope + 1, <<>>)}

\* the peer sends the first k bytes of a packet
EnvSend(pkt, k, max) ==
  /\ env.sent < max
  /\ ep["c"].chan
  /\ k \in 1..Len(pkt)
  /\ ep' = [ep EXCEPT !["c"].out = @ \o Take(pkt, k)]
  /\ env' = [env EXCEPT !.sent = @ + 1]
  /\ UNCHANGED <<thr, mutex, srv, wlog, lockOrder>>

\* the peer closes the channel
EnvClose ==
  /\ ep["c"].chan
  /\ ep' = [ep EXCEPT !["c"].chan = FALSE]
  /\ UNCHANGED <<thr, mutex, srv, env, wlog, lockOrder>>

(***************************************************************************)
(* Spec: client threads call the facade of ep["c"] concurrently, ep["s"]   *)
(* runs ServerLoop.  The server is one that has no serving session yet or  *)
(* one whose local session was installed by an earlier InitServer.         *)
(***************************************************************************)
Endpoints(toinit, sess) ==
  [e \in {"c", "s"} |-> IF e = "s" THEN NewEndpoint(toinit, sess) ELSE NewEndpoint(FALSE, "null")]

Init ==
  /\ \E sess \in {"null", "local"} : ep = Endpoints(FALSE, sess)
  /\ InitCommon

Next ==
  \/ \E t \in Threads : BeginCall(t)
  \/ \E t \in Threads : WriteLen(t)
  \/ \E t \in Threads : WriteCode(t)
  \/ \E t \in Threads : WriteBody(t)
  \/ \E t \in Threads : ClientTop(t)
  \/ \E t \in Threads : ClientRecv(t)
  \/ ServerTop
  \/ ServerRecv

Spec == Init /\ [][Next]_vars

(***************************************************************************)
(* SpecRace: as Spec with a local session, and a thread may call           *)
(* Shutdown() while another is inside a facade call.                       *)
(***************************************************************************)
InitRace ==
  /\ ep = Endpoints(FALSE, "local")
  /\ InitCommon

NextRace ==
  \/ \E t \in Threads : BeginCall(t)
  \/ \E t \in Threads : WriteLen(t)
  \/ \E t \in Threads : WriteCode(t)
  \/ \E t \in Threads : WriteBody(t)
  \/ \E t \in Threads : ClientTop(t)
  \/ \E t \in Threads : ClientRecv(t)
  \/ \E t \in Threads : BeginShutdown(t)
  \/ \E t \in Threads : ShutWriteCode(t)
  \/ \E t \in Threads : ShutFlushClose(t)
  \/ ServerTop
  \/ ServerRecv

SpecRace == InitRace /\ [][NextRace]_vars

(***************************************************************************)
(* SpecPeer: ServerLoop against a scripted peer, which may send any packet *)
(* of PeerMenu, stop in the middle of one, and close the channel.          *)
(***************************************************************************)
InitPeer ==
  /\ \E toinit \in BOOLEAN, sess \in {"null", "local"} : ep = Endpoints(toinit, sess)
  /\ InitCommon

NextPeer ==
  \/ \E pkt \in PeerMenu :
       \E k \in {Len(pkt), IF Len(pkt) > 10 THEN 10 ELSE 2} : EnvSend(pkt, k, MaxEnvPackets)
  \/ EnvClose
  \/ ServerTop
  \/ ServerRecv

SpecPeer == InitPeer /\ [][NextPeer]_vars

(***************************************************************************)
(* SpecClient: one client thread, which makes facade calls and may call   *)
(* Shutdown(), against a scripted peer that answers with packets of        *)
(* ReplyMenu, whole or in part, and may close the channel.                 *)
(***************************************************************************)
\* the packets the scripted peer answers with: Return, Exception, CopyAck with
\* the byte asked for, with none and with two, and Shutdown
ReplyMenu ==
  {Packet(RPCCode.kReturn, EncSeq(<<VInt(1)>>)),
   Packet(RPCCode.kException, EncSeq(<<VStr(MsgBoom)>>)),
   Packet(RPCCode.kCopyAck, <<5>>),
   Packet(RPCCode.kCopyAck, <<>>),
   Packet(RPCCode.kCopyAck, <<5, 6>>),
   Packet(RPCCode.kShutdown, <<>>)}

\* the peer sends the first k bytes of a packet to the client
PeerReply(pkt, k) ==
  /\ env.sent < MaxEnvPackets
  /\ ep["s"].chan
  /\ ep' = [ep EXCEPT !["s"].out = @ \o Take(pkt, k)]
  /\ env' = [env EXCEPT !.sent = @ + 1]
  /\ UNCHANGED <<thr, mutex, srv, wlog, lockOrder>>

\* the peer closes the channel of the client
PeerClose ==
  /\ ep["s"].chan
  /\ ep' = [ep EXCEPT !["s"].chan = FALSE]
  /\ UNCHANGED <<thr, mutex, srv, env, wlog, lockOrder>>

NextClient ==
  \/ \E op \in CallMenu(1) : Begin(1, op)
  \/ \E t \in Threads : WriteLen(t)
  \/ \E t \in Threads : WriteCode(t)
  \/ \E t \in Threads : WriteBody(t)
  \/ \E t \in Threads : ClientTop(t)
  \/ \E t \in Threads : ClientRecv(t)
  \/ \E pkt \in ReplyMenu : \E k \in {Len(pkt), 5} : PeerReply(pkt, k)
  \/ PeerClose
  \/ BeginShutdown(1)
  \/ ShutWriteCode(1)
  \/ ShutFlushClose(1)

SpecClient == InitRace /\ [][NextClient]_vars

(***************************************************************************)
(* SpecProto: ServerLoop, started as in Spec, against a scripted peer that *)
(* sends whole packets of ProtoMenu.                                       *)
(***************************************************************************)
NextProto ==
  \/ \E pkt \in ProtoMenu : EnvSend(pkt, Len(pkt), MaxEnvPackets)
  \/ EnvClose
  \/ ServerTop
  \/ ServerRecv

SpecProto == Init /\ [][NextProto]_vars

(***************************************************************************)
(* SpecInit: a server without a session is sent InitServer packets, with   *)
(* and without constructor arguments, in a process where the constructor   *)
(* of the local session is registered, is missing, or raises.              *)
(***************************************************************************)
InitMenu ==
  {InitServerPacket(<<48>>, <<>>),
   InitServerPacket(<<48>>, <<VStr(<<76>>)>>),
   InitServerPacket(kRPCProtocolVer, <<>>),
   InitServerPacket(kRPCProtocolVer, <<VStr(<<76>>)>>),
   InitServerPacket(kRPCProtocolVer, <<VStr(<<70>>)>>),
   InitServerPacket(kRPCProtocolVer, <<VStr(<<88>>)>>),
   Packet(RPCCode.kSyscallCodeStart, EncSeq(<<VStr(<<101>>)>>))}

InitInit ==
  /\ \E c \in {"local", "missing", "fail"} :
       ep = [Endpoints(FALSE, "null") EXCEPT !["s"].local_ctor = c]
  /\ InitCommon

NextInit ==
  \/ \E pkt \in InitMenu : EnvSend(pkt, Len(pkt), MaxEnvPackets)
  \/ EnvClose
  \/ ServerTop
  \/ ServerRecv

SpecInit == InitInit /\ [][NextInit]_vars

(***************************************************************************)
(* SpecCopy: a client session copies to and from the host memory of a      *)
(* server with a local session.  The tensor covers that memory; the peer   *)
(* has no GetCRTMaxPacketSize, or one that returns 0, the overhead, or the *)
(* overhead and a block of 1..MaxBlock bytes.                              *)
(***************************************************************************)
InitCopy ==
  /\ ep = [Endpoints(FALSE, "local") EXCEPT !["s"].mem = [i \in 1..MaxCopyBytes |-> 0]]
  /\ thr = [t \in Threads |-> NewThread]
  /\ mutex = 0
  /\ srv = [pc |-> "top", err |-> "", code |-> RPCCode.kNone, eof |-> "", ret |-> 1]
  /\ wlog = <<>>
  /\ lockOrder = <<>>
  /\ \E has \in BOOLEAN, block \in 0..MaxBlock, off \in {0, 1} :
       env = [sent |-> 0,
              peer |-> [has |-> has,
                        max |-> IF ~has THEN 0
                                ELSE IF block = 0 /\ off = 1 THEN 0
                                ELSE RemoteCopyCalculatePacketOverheadSize(
                                       Tensor(kDLCPU, 0, <<MaxCopyBytes>>, 8, 0)) + block],
              chunk |-> -1, lookups |-> 0, calls |-> 0, ncopies |-> 0,
              pc |-> "idle", dir |-> "none", nbytes |-> 0, payload |-> <<>>, k |-> 0,
              t |-> Tensor(kDLCPU, 0, <<MaxCopyBytes>>, 8, off),
              buf |-> <<>>, log |-> <<>>, err |-> "",
              prev |-> [dir |-> "none", nbytes |-> 0, payload |-> <<>>, buf |-> <<>>,
                        err |-> ""]]

NextCopy ==
  \/ SessBegin
  \/ SessChunk

SpecCopy == InitCopy /\ [][NextCopy]_vars

(***************************************************************************)
(* SpecAsync: an event-driven server with an asynchronous serving session, *)
(* or with none yet, fed by ServerAsyncIOEventHandler with what a scripted *)
(* peer has sent.                                                          *)
(***************************************************************************)
InitAsync ==
  /\ \E sess \in {"async", "null"} : ep = Endpoints(FALSE, sess)
  /\ InitCommon

NextAsync ==
  \/ \E pkt \in AsyncMenu : EnvSend(pkt, Len(pkt), MaxAsyncOps)
  \/ ServerAsyncIOEventHandler
  \/ ServerAsyncIOAfterShutdown
  \/ AsyncComplete

SpecAsync == InitAsync /\ [][NextAsync]_vars

(***************************************************************************)
(* Properties.                                                             *)
(***************************************************************************)
\* the (thread, call) pairs of the packets that begin in wlog, in order
Begun == SelectSeq(wlog, LAMBDA w : w[3] = "len")

\* the locks taken by calls that went on to write
Wrote(l) == \E i \in 1..Len(wlog) : wlog[i][1] = l[1] /\ wlog[i][2] = l[2]

\* every packet is one contiguous run of writes
Contiguous ==
  \A i, j, k \in 1..Len(wlog) :
    (i < j /\ j < k /\ wlog[i][1] = wlog[k][1] /\ wlog[i][2] = wlog[k][2])
      => (wlog[j][1] = wlog[i][1] /\ wlog[j][2] = wlog[i][2])

Busy(t) == thr[t].pc \notin {"idle"}

\* C1: while an asynchronous operation is in flight the handler is in
\* WaitForAsyncCallback, and in that state no step consumes bytes of R or
\* dispatches a packet, however many bytes have arrived; a packet is dispatched
\* only when every packet dispatched before has its reply written and the handler
\* has left WaitForAsyncCallback.
C1_NoProgressWhileWaiting ==
  /\ [](ep["s"].inflight.kind # "none" => ep["s"].state = "WaitForAsyncCallback")
  /\ [](ep["s"].ndisp - ep["s"].nreply \in {0, 1})
  /\ [](ep["s"].state = "WaitForAsyncCallback" => ep["s"].ndisp = ep["s"].nreply + 1)
  /\ [][ep["s"].state = "WaitForAsyncCallback"
          => (ep'["s"].nread = ep["s"].nread /\ ep'["s"].ndisp = ep["s"].ndisp)]_vars
  /\ [][ep'["s"].ndisp > ep["s"].ndisp
          => (ep["s"].state # "WaitForAsyncCallback" /\ ep["s"].nreply = ep["s"].ndisp)]_vars

\* a whole second packet has arrived in R while the first call is in flight
C1_Witness ==
  /\ ep["s"].state = "WaitForAsyncCallback"
  /\ ep["s"].inflight.kind = "call"
  /\ ep["s"].ndisp = 1
  /\ Len(ep["s"].R) >= 12

\* C2: at most one client thread is inside a facade call, and it holds the
\* mutex; the packets begin in W in the order the mutex was taken, each one
\* contiguous; and a call that returns gets the reply to its own request.
C2_Serialised ==
  /\ Cardinality({t \in Threads : Busy(t)}) <= 1
  /\ \A t \in Threads : Busy(t) => mutex = t
  /\ mutex # 0 => Busy(mutex)
  /\ Contiguous
  /\ [i \in 1..Len(Begun) |-> <<Begun[i][1], Begun[i][2]>>] = SelectSeq(lockOrder, Wrote)
  /\ \A t \in Threads :
       (thr[t].pc = "idle" /\ thr[t].code \in {RPCCode.kReturn, RPCCode.kCopyAck}) =>
         CASE thr[t].op.kind = "call" -> thr[t].rv = thr[t].op.args
           [] thr[t].op.kind = "copyfrom" -> thr[t].rv \in {<<0>>, <<10 + t>>}
           [] thr[t].op.kind = "syscall" -> thr[t].rv = <<Val("ptr", 1)>>
           [] OTHER -> thr[t].rv = <<VNull>>

\* both threads called the echo function and each got its own argument back
C2_Witness ==
  /\ Len(lockOrder) = 2
  /\ \A t \in Threads :
       /\ thr[t].pc = "idle"
       /\ thr[t].op.kind = "call"
       /\ thr[t].code = RPCCode.kReturn
       /\ thr[t].rv = <<VInt(t)>>

\* C3: every write of a client packet to W, those of Shutdown() included, is
\* made by the thread that holds the mutex, and every packet is contiguous in W.
C3_AllWritesUnderMutex ==
  /\ \A t \in Threads : thr[t].pc \in {"w_code", "w_body", "sd_code", "sd_flush"} => mutex = t
  /\ Contiguous

\* C4: once Shutdown() has sent its packet and closed the channel, the ServerLoop
\* of the peer, which was running, does not end with an error.
C4_ShutdownDelivered ==
  (\E t \in Threads : thr[t].op.kind = "shutdown" /\ thr[t].pc = "idle" /\ thr[t].err = "")
    => srv.pc # "error"

C6_ZeroBytes ==
  srv.eof # "" =>
    IF srv.eof = "RecvPacketNumBytes"
    THEN srv.pc = "returned" /\ srv.code = RPCCode.kShutdown /\ srv.err = ""
    ELSE /\ srv.pc = "error"
         /\ srv.code = RPCCode.kNone
         /\ srv.err = "Channel closes before we get needed bytes"

\* the channel closed in the middle of a packet
C6_Witness == srv.eof = "ProcessPacket" /\ srv.pc = "error"

\* C7: CanCleanShutdown() is true exactly in the state RecvPacketNumBytes.
C7_CanCleanShutdown ==
  \A e \in {"c", "s"} : CanCleanShutdown(ep[e]) <=> ep[e].state = "RecvPacketNumBytes"

\* the handler waits for the key of the init header and cannot shut down cleanly
C7_Witness ==
  /\ ep["s"].state = "InitHeader"
  /\ ep["s"].init_header_step = 1
  /\ ~CanCleanShutdown(ep["s"])

\* C8: no error of serving a request is raised out of the server, and the server
\* does not stop with its handler in WaitForAsyncCallback.
C8_ErrorsBecomeExceptions ==
  /\ srv.err \notin {"NoSession", "AsyncInSync"}
  /\ ~(srv.pc = "error" /\ ep["s"].state = "WaitForAsyncCallback")

C9_Witness ==
  /\ thr[1].err = "RemoteError" /\ thr[1].errmsg = MsgTimeout
  /\ thr[2].err = "RemoteError" /\ thr[2].errmsg = RPCErrorBanner \o MsgBoom

\* C10: a call that ends with the Return event has had set_return called once,
\* and a call that ends with the error of an Exception packet not at all.
C10_SetReturnOnce ==
  \A t \in Threads :
    /\ (thr[t].pc = "idle" /\ thr[t].code = RPCCode.kReturn) => thr[t].nset = 1
    /\ thr[t].err = "RemoteError" => (thr[t].nset = 0 /\ thr[t].code = RPCCode.kNone)

\* one call returned a value and the other raised the peer's exception
C10_Witness ==
  /\ thr[1].pc = "idle" /\ thr[1].code = RPCCode.kReturn /\ thr[1].nset = 1
  /\ thr[1].op.kind = "call" /\ thr[1].rv = <<VInt(1)>>
  /\ thr[2].err = "RemoteError" /\ thr[2].nset = 0

\* the body of the packet the handler of ep["s"] is about to receive the rest of
Body == Take(ep["s"].R \o ep["c"].out, ep["s"].pending)

\* the next server step dispatches the packet with this body
Serves(body) ==
  /\ ep["s"].state = "ProcessPacket"
  /\ Body = body
  /\ ep'["s"].ndisp = ep["s"].ndisp + 1

\* the Exception packet with the message of the error err
ExceptionPacket(err) == Packet(RPCCode.kException, EncSeq(<<VStr(What(err))>>))

\* C11: the step that serves an InitServer packet whose version string differs
\* from kRPCProtocolVer writes one Exception packet to W and nothing else, installs
\* no session, and ends in RecvPacketNumBytes with ServerLoop running.
C11_VersionMismatch ==
  [][\A ver \in {<<48, 46, 55>>, <<48>>} :
       Serves(Drop(InitServerPacket(ver, <<>>), 8)) =>
         /\ ep'["s"].W = ep["s"].W
                          \o ExceptionPacket(IF ep["s"].sess = "null" THEN "Version"
                                             ELSE "AlreadyInit")
         /\ ep'["s"].out = ep["s"].out
         /\ ep'["s"].nreply = ep["s"].nreply + 1
         /\ ep'["s"].sess = ep["s"].sess
         /\ ep'["s"].state = "RecvPacketNumBytes"
         /\ srv'.pc \in {"top", "recv"}]_vars

\* a server without a session has answered an InitServer packet with the
\* version mismatch and has no session
C11_Witness ==
  /\ ep["s"].ndisp = 1
  /\ ep["s"].out = ExceptionPacket("Version")
  /\ ep["s"].sess = "null"
  /\ ep["s"].state = "RecvPacketNumBytes"

\* the opcodes of the packets in a stream of whole packets
RECURSIVE PacketCodes(_)
PacketCodes(bs) ==
  IF Len(bs) < 12 THEN <<>>
  ELSE <<DecI32(SubSeq(bs, 9, 12))>> \o PacketCodes(Drop(bs, 8 + DecLE(Take(bs, 8))))

\* all that ep["s"] has replied
Replied == ep["s"].out \o ep["s"].W

\* the first reply of the server was the rejection of an InitServer packet for
\* its version
Rejected == StartsWith(Replied, ExceptionPacket("Version"))

FatalOpcode(pkt) ==
  Serves(Drop(pkt, 8)) =>
    /\ srv'.pc = "error"
    /\ srv'.err = "Unknown event"
    /\ ep'["s"].W = ep["s"].W
    /\ ep'["s"].out = ep["s"].out
    /\ ep'["s"].nreply = ep["s"].nreply

\* C13 as stated: a packet with the opcode None, with the value of
\* SyscallCodeStart or with a value above the last syscall is fatal and gets no
\* reply.
C13_UnknownOpcodeFatal ==
  [][/\ FatalOpcode(Packet(RPCCode.kNone, <<>>))
     /\ FatalOpcode(Packet(RPCCode.kDevAllocDataWithScope + 1, <<>>))
     /\ FatalOpcode(Packet(RPCCode.kSyscallCodeStart, EncSeq(<<VStr(<<101>>)>>)))]_vars

\* C13: a packet with the opcode None or with a value above the last syscall is
\* fatal and gets no reply; the value of SyscallCodeStart is the opcode of
\* GetGlobalFunc, and a packet with it is served and gets one reply.
C13_UnknownOpcodeFatalButStart ==
  [][/\ FatalOpcode(Packet(RPCCode.kNone, <<>>))
     /\ FatalOpcode(Packet(RPCCode.kDevAllocDataWithScope + 1, <<>>))
     /\ Serves(Drop(Packet(RPCCode.kSyscallCodeStart, EncSeq(<<VStr(<<101>>)>>)), 8)) =>
          /\ srv'.pc \in {"top", "recv"}
          /\ ep'["s"].nreply = ep["s"].nreply + 1
          /\ ep'["s"].W = ep["s"].W
                           \o IF ep["s"].sess = "null" THEN ExceptionPacket("NoSession")
                              ELSE Packet(RPCCode.kReturn, EncSeq(<<Val("ptr", 101 % 4)>>))]_vars

\* a packet with an opcode above the last syscall has ended ServerLoop, after a
\* packet with the opcode of SyscallCodeStart was answered
C13_Witness ==
  /\ srv.pc = "error"
  /\ srv.err = "Unknown event"
  /\ ep["s"].ndisp = 2
  /\ ep["s"].sess = "local"
  /\ PacketCodes(Replied) = <<RPCCode.kReturn>>
  /\ ep["c"].out = <<>>

\* among the arguments of the call of thread t is an object that is neither a
\* module nor a reference to a remote object, or an RPC-session device
Invalid(t) ==
  /\ thr[t].op.kind = "call"
  /\ \E i \in 1..Len(thr[t].op.args) :
       \/ thr[t].op.args[i].k = "localobj"
       \/ thr[t].op.args[i].k = "dev" /\ thr[t].op.args[i].n >= kRPCSessMask

\* C14: a CallFunc whose arguments do not pass ValidateArguments raises its
\* error in the step that enters the call, which changes nothing of the
\* endpoint, writes no byte and leaves the mutex free; the calls made after it
\* are served as if it had not been made.
C14_InvalidArgumentsFailEarly ==
  /\ [](\A t \in Threads :
          Invalid(t) => (thr[t].pc = "idle" /\ thr[t].err = "ValidateArguments" /\ mutex # t))
  /\ [][\A t \in Threads :
          (~Invalid(t) /\ Invalid(t)') =>
             /\ ep' = ep
             /\ wlog' = wlog
             /\ mutex' = mutex]_vars
  /\ [](\A t \in Threads :
          (Invalid(t) /\ ep["s"].sess = "local") =>
             \A u \in Threads \ {t} :
               (thr[u].pc = "idle" /\ thr[u].op = Op("call", 1, <<VInt(u)>>, NoTensor, <<>>)) =>
                  (thr[u].err = "" /\ thr[u].code = RPCCode.kReturn /\ thr[u].rv = <<VInt(u)>>))

\* the call of thread 1 with an RPC-session device was refused, and the call
\* thread 2 made after it returned its value
C14_Witness ==
  /\ lockOrder = <<<<1, 1>>, <<2, 1>>>>
  /\ thr[1].op.args = <<VInt(1), Val("dev", kRPCSessMask + kDLCPU)>>
  /\ thr[1].err = "ValidateArguments"
  /\ thr[2].pc = "idle"
  /\ thr[2].op.kind = "call"
  /\ thr[2].rv = <<VInt(2)>>
  /\ ep["c"].state = "RecvPacketNumBytes"
  /\ ep["c"].pending = 8

\* C15: a facade call entered after Shutdown() has reset the channel never
\* waits for bytes and never returns a result: it raises the error of its
\* argument check or, when it enters the drive loop, the error of the closed
\* connection, and releases the mutex.
C15_CallsAfterShutdownRaise ==
  /\ [](\A t \in Threads :
          thr[t].late =>
            /\ thr[t].pc \in {"idle", "w_len", "w_code", "w_body"}
            /\ thr[t].rv = <<>>
            /\ thr[t].code = RPCCode.kNone
            /\ thr[t].pc = "idle" =>
                 thr[t].err \in {"connection was previously closed", "ValidateArguments",
                                 "unsupported object", "overflow in tensor size"})
  /\ [][\A t \in Threads :
          (thr[t].late /\ thr[t].pc = "w_body" /\ thr'[t] # thr[t]) =>
             /\ thr'[t].pc = "idle"
             /\ thr'[t].err = "connection was previously closed"
             /\ mutex' = 0]_vars

\* thread 2 has completed Shutdown(), and the call thread 1 made after it was
\* ended by the check of the channel
C15_Witness ==
  /\ thr[2].op.kind = "shutdown" /\ thr[2].pc = "idle" /\ thr[2].err = ""
  /\ thr[1].late
  /\ thr[1].op.kind = "call"
  /\ thr[1].pc = "idle"
  /\ thr[1].err = "connection was previously closed"
  /\ mutex = 0

\* the block of the session's copies: the maximum packet size less the overhead
Block == env.chunk - RemoteCopyCalculatePacketOverheadSize(env.t)

RECURSIVE SumN(_)
SumN(log) == IF log = <<>> THEN 0 ELSE Head(log).n + SumN(Tail(log))

\* a copy of the session has ended without an error
Copied == env.ncopies > 0 /\ env.pc = "idle" /\ env.err = ""

\* C16: a copy of nbytes with a block above 0 issues ceil(nbytes / block)
\* transfers, none when nbytes is 0; the k-th (from 0) carries byte_offset
\* k * block, every one but the last block bytes, and the sizes sum to nbytes.
\* While the copy runs the transfers issued are the first k of these, and no
\* transfer fails.
C16_TransfersOfACopy ==
  /\ env.err \in {"", "Invalid block size", "RPC max transfer size is <= 0"}
  /\ env.pc \in {"to", "from"} =>
       /\ Block > 0
       /\ Len(env.log) = env.k
       /\ env.k <= (env.nbytes + Block - 1) \div Block
       /\ \A i \in 1..Len(env.log) :
            /\ env.log[i].off = (i - 1) * Block
            /\ env.log[i].n = IF i * Block <= env.nbytes THEN Block
                              ELSE env.nbytes - (i - 1) * Block
            /\ env.log[i].n > 0
  /\ Copied =>
       /\ Block > 0
       /\ Len(env.log) = (env.nbytes + Block - 1) \div Block
       /\ env.nbytes = 0 => env.log = <<>>
       /\ \A i \in 1..Len(env.log) :
            /\ env.log[i].off = (i - 1) * Block
            /\ i < Len(env.log) => env.log[i].n = Block
            /\ env.log[i].n \in 1..Block
       /\ SumN(env.log) = env.nbytes

\* a copy of three bytes in blocks of two has ended: two transfers, the last of
\* one byte
C16_Witness ==
  /\ Copied
  /\ Block = 2
  /\ env.nbytes = 3
  /\ Len(env.log) = 2
  /\ env.log[2].n = 1

\* the copy before the one that has ended was a CopyToRemote of as many bytes,
\* and ended without an error
AfterCopyTo ==
  /\ Copied
  /\ env.dir = "from"
  /\ env.prev.dir = "to"
  /\ env.prev.err = ""
  /\ env.prev.nbytes = env.nbytes

\* C17: a CopyToRemote of a payload into a region of a host tensor of the peer
\* followed by a CopyFromRemote of the same region yields the payload, byte for
\* byte, whatever the block; after the CopyToRemote the region holds the payload.
C17_RoundTrip ==
  /\ (Copied /\ env.dir = "to") => Take(ep["s"].mem, env.nbytes) = env.payload
  /\ AfterCopyTo => env.buf = env.prev.payload

\* a payload of three bytes has gone to the peer and come back in blocks of two
C17_Witness ==
  /\ AfterCopyTo
  /\ Block = 2
  /\ env.nbytes = 3
  /\ env.buf = <<41, 42, 43>>

\* C18: no transfer of a copy is larger than the maximum packet size: the body
\* of a CopyToRemote packet (opcode, tensor header, nbytes field, payload) is
\* the overhead and the payload and at most the maximum, the CopyAck body that
\* answers a CopyFromRemote transfer is at most the maximum; with a maximum
\* that is not above the overhead the copy fails before any transfer.
C18_TransfersWithinMax ==
  /\ \A i \in 1..Len(env.log) :
       /\ env.log[i].req <= env.chunk
       /\ env.dir = "to" =>
            env.log[i].req = RemoteCopyCalculatePacketOverheadSize(env.t) + env.log[i].n
       /\ env.dir = "from" =>
            /\ env.log[i].req = RemoteCopyCalculatePacketOverheadSize(env.t)
            /\ env.log[i].ack = 4 + env.log[i].n
            /\ env.log[i].ack <= env.chunk
  /\ (env.ncopies > 0 /\ env.chunk <= RemoteCopyCalculatePacketOverheadSize(env.t)) =>
       /\ env.pc = "idle"
       /\ env.err # ""
       /\ env.log = <<>>
       /\ ep["s"].ndisp = 0
       /\ ep["c"].out = <<>>

\* a CopyToRemote has sent a packet whose body is as large as the maximum allows
C18_Witness ==
  /\ env.dir = "to"
  /\ Len(env.log) = 2
  /\ env.log[1].req = env.chunk
  /\ env.log[1].n = 2

Stream == ep["s"].R \o ep["c"].out

\* C20: a handler created with the key "%toinit" starts in InitHeader needing
\* 4 bytes; the first bytes it consumes are the 4 of key_len, the next exactly
\* key_len bytes, which become the key, and it is then in RecvPacketNumBytes
\* needing 8 bytes with no packet dispatched.  A handler created with another
\* key starts in RecvPacketNumBytes needing 8 bytes, is never in InitHeader,
\* and the first bytes it consumes are the 8 of a packet length.
C20_InitHeaderHandshake ==
  [][/\ (ep["s"].state = "InitHeader" /\ ep["s"].init_header_step = 0) =>
          /\ ep["s"].pending = 4
          /\ ep["s"].nread = 0
          /\ ep["s"].ndisp = 0
          /\ ep["s"].remote_key = <<>>
          /\ ep'["s"].nread # 0 =>
               /\ Len(Stream) >= 4
               /\ ep'["s"].nread = 4
               /\ ep'["s"].init_header_step = 1
               /\ ep'["s"].ndisp = 0
               /\ IF DecI32(Take(Stream, 4)) > 0
                  THEN /\ ep'["s"].state = "InitHeader"
                       /\ ep'["s"].pending = DecI32(Take(Stream, 4))
                  ELSE /\ ep'["s"].state = "RecvPacketNumBytes"
                       /\ ep'["s"].pending = 8
                       /\ ep'["s"].remote_key = <<>>
     /\ (ep["s"].state = "InitHeader" /\ ep["s"].init_header_step = 1) =>
          /\ ep["s"].nread = 4
          /\ ep["s"].ndisp = 0
          /\ ep["s"].pending > 0
          /\ ep'["s"].nread # 4 =>
               /\ Len(Stream) >= ep["s"].pending
               /\ ep'["s"].nread = 4 + ep["s"].pending
               /\ ep'["s"].remote_key = Take(Stream, ep["s"].pending)
               /\ ep'["s"].state = "RecvPacketNumBytes"
               /\ ep'["s"].pending = 8
               /\ ep'["s"].ndisp = 0
     /\ ep["s"].state # "InitHeader" =>
          /\ ep'["s"].state # "InitHeader"
          /\ ep'["s"].init_header_step = ep["s"].init_header_step
          /\ ep'["s"].remote_key = ep["s"].remote_key
     /\ (ep["s"].state # "InitHeader" /\ ep["s"].init_header_step = 0) =>
          /\ ep["s"].remote_key = <<>>
          /\ ep["s"].nread = 0 =>
               /\ ep["s"].state = "RecvPacketNumBytes"
               /\ ep["s"].pending = 8
               /\ ep["s"].ndisp = 0
               /\ ep'["s"].nread # 0 =>
                    /\ Len(Stream) >= 8
                    /\ ep'["s"].nread = 8
                    /\ ep'["s"].ndisp = 0]_vars

\* the handshake has ended: the 4 bytes of key_len and the one byte of the key
\* are consumed, and the handler waits for the length of the first packet
C20_Witness ==
  /\ ep["s"].init_header_step = 1
  /\ ep["s"].remote_key = <<107>>
  /\ ep["s"].nread = 5
  /\ ep["s"].state = "RecvPacketNumBytes"
  /\ ep["s"].pending = 8
  /\ ep["s"].ndisp = 0

C23_ShutdownOnlyWhenIdle ==
  [][\A t \in Threads :
       (thr[t].pc = "sd_flush" /\ thr'[t].pc = "idle" /\ thr'[t].err = "") =>
         ep["c"].state = "RecvPacketNumBytes"]_vars

\* C24 as stated: while the handler is in WaitForAsyncCallback every byte
\* written to W before the operation was started has been handed to the
\* channel.
C24_FlushedOnEntry ==
  ep["s"].state = "WaitForAsyncCallback" => ep["s"].W = <<>>

\* C24: the handler flushes W when it leaves WaitForAsyncCallback: the bytes
\* that were in W, and after them the reply the completion has written, are
\* handed to the channel, and W is empty.
C24_FlushedOnExit ==
  [][(ep["s"].state = "WaitForAsyncCallback" /\ ep'["s"].state # "WaitForAsyncCallback") =>
       /\ ep'["s"].W = <<>>
       /\ ep'["s"].nreply = ep["s"].nreply + 1
       /\ Len(ep'["s"].out) > Len(ep["s"].out) + Len(ep["s"].W)
       /\ Take(ep'["s"].out, Len(ep["s"].out) + Len(ep["s"].W)) = ep["s"].out \o ep["s"].W]_vars

\* the reply of a syscall and the reply of the call served after it have been
\* handed to the channel, the second by the completion of the call
C24_Witness ==
  /\ ep["s"].state = "RecvPacketNumBytes"
  /\ ep["s"].inflight.kind = "none"
  /\ ep["s"].ndisp = 2
  /\ ep["s"].nreply = 2
  /\ ep["s"].W = <<>>
  /\ PacketCodes(ep["s"].out) = <<RPCCode.kReturn, RPCCode.kReturn>>
  /\ srv.pc = "top"

\* C25 as stated: every switch out of WaitForAsyncCallback is made by a
\* completion callback.
C25_LeftOnlyByCallback == ep["s"].nleft <= ep["s"].ndone

\* C25: the handler leaves WaitForAsyncCallback only by a switch to
\* RecvPacketNumBytes that follows the writing of a reply packet, made by the
\* completion callback of the operation or by the catch block of
\* HandleSyscallStreamSync; between two calls of the handler it is a
\* completion callback that leaves the state.
C25_LeftByCallbackOrCatch ==
  [][/\ ep'["s"].nleft - ep["s"].nleft
          <= (ep'["s"].ndone - ep["s"].ndone) + (ep'["s"].ncatch - ep["s"].ncatch)
     /\ ep'["s"].nleft - ep["s"].nleft <= ep'["s"].nreply - ep["s"].nreply
     /\ ep'["s"].nleft - ep["s"].nleft <= ep'["s"].recycles - ep["s"].recycles
     /\ ep'["s"].nwait = ep'["s"].nleft + (IF ep'["s"].state = "WaitForAsyncCallback" THEN 1 ELSE 0)
     /\ (ep["s"].state = "WaitForAsyncCallback" /\ ep'["s"].state # "WaitForAsyncCallback") =>
          /\ ep'["s"].state = "RecvPacketNumBytes"
          /\ ep'["s"].ndone = ep["s"].ndone + 1
          /\ ep'["s"].ncatch = ep["s"].ncatch
          /\ ep'["s"].nreply = ep["s"].nreply + 1
          /\ ep["s"].inflight.kind # "none"
          /\ ep'["s"].inflight.kind = "none"]_vars

\* a handler with no serving session has served a DevStreamSync packet: the
\* catch block has written the Exception and left WaitForAsyncCallback
C25_Witness ==
  /\ ep["s"].sess = "null"
  /\ ep["s"].nwait = 1
  /\ ep["s"].nleft = 1
  /\ ep["s"].ncatch = 1
  /\ ep["s"].ndone = 0
  /\ ep["s"].nreply = 1
  /\ ep["s"].state = "RecvPacketNumBytes"

\* the opcode of the packet the handler of ep["s"] is about to dispatch has a
\* handler that ends with a state switch other than the one to CopyAckReceived
Handled ==
  DecI32(Take(Body, 4)) \in
    {RPCCode.kInitServer, RPCCode.kCallFunc, RPCCode.kCopyFromRemote, RPCCode.kCopyToRemote,
     RPCCode.kReturn, RPCCode.kException, RPCCode.kShutdown, RPCCode.kDevStreamSync}
    \cup PlainSyscalls

\* C26: the step that dispatches a packet ends in the failure of the check of
\* SwitchToState exactly if the handler of the opcode has read fewer bytes than
\* the length prefix announced: never for a packet whose prefix is the length
\* its handler reads, always for a longer one.
C26_PendingZeroAtSwitch ==
  [][(ep["s"].state = "ProcessPacket" /\ ep'["s"].ndisp = ep["s"].ndisp + 1 /\ Handled) =>
       ((srv'.pc = "error" /\ srv'.err = "ICHECK_EQ(pending_request_bytes_, 0)")
          <=> ep'["s"].nread - ep["s"].nread < ep["s"].pending)]_vars

\* C27: every switch into RecvPacketNumBytes leaves eight bytes pending and
\* recycles the arena once, the arena is recycled by nothing else (the number
\* of recycles is the number of such switches, step by step), and no reply is
\* written after a recycle that followed the dispatch of the packet it answers.
C27_RecycledOncePerSwitch ==
  /\ [](\A e \in DOMAIN ep :
          /\ ep[e].state = "RecvPacketNumBytes" => ep[e].pending = 8
          /\ ep[e].recycles = ep[e].nrecv
          /\ ~ep[e].early)
  /\ [][\A e \in DOMAIN ep :
          /\ ep'[e].recycles - ep[e].recycles = ep'[e].nrecv - ep[e].nrecv
          /\ (ep'[e].state = "RecvPacketNumBytes" /\ ep'[e].err = ""
                /\ ep'[e].recycles > ep[e].recycles) => ep'[e].arena = 0
          /\ (ep[e].state = "WaitForAsyncCallback" /\ ep'[e].state = "WaitForAsyncCallback"
                /\ ep'[e].nleft = ep[e].nleft) =>
                ep'[e].recycles = ep[e].recycles]_vars

\* the server answered a packet it had waited on and has recycled the arena
\* for it and for the packet before it
C27_Witness ==
  /\ ep["s"].state = "RecvPacketNumBytes"
  /\ ep["s"].err = ""
  /\ ep["s"].nleft >= 1
  /\ ep["s"].nreply >= 2
  /\ ep["s"].recycles >= 2

\* C28: a CallFunc packet is handed to the serving session only after the
\* switch to WaitForAsyncCallback, and the step in which the session's completion
\* fires writes exactly one reply, a Return packet with the result or an
\* Exception packet, and ends in RecvPacketNumBytes, whether the call succeeded,
\* failed, or returned a result that fails validation.
C28_CallFuncCompletion ==
  /\ [](ep["s"].inflight.kind = "call" => ep["s"].state = "WaitForAsyncCallback")
  /\ [][(ep["s"].inflight.kind = "call" /\ ep'["s"].inflight.kind = "none") =>
          /\ ep'["s"].nreply = ep["s"].nreply + 1
          /\ ep'["s"].state = "RecvPacketNumBytes"
          /\ ep'["s"].W = <<>>
          /\ \E r \in {Packet(RPCCode.kReturn, EncSeq(ep["s"].inflight.args)),
                        Packet(RPCCode.kException, EncSeq(<<VStr(MsgBoom)>>))} :
                ep'["s"].out = ep["s"].out \o ep["s"].W \o r]_vars

\* C29: when HandleNextEvent, called after bytes were received, returns kNone
\* (the drive loop goes round again, the event-driven server asks for more), the
\* handler is in WaitForAsyncCallback or R holds fewer bytes than are pending;
\* BytesNeeded() is the number of pending bytes R does not hold yet, and 0 when
\* R holds them all.
C29_NoneOnlyWhenBlocked ==
  /\ [](\A e \in DOMAIN ep :
          /\ Len(ep[e].R) >= ep[e].pending => BytesNeeded(ep[e]) = 0
          /\ Len(ep[e].R) < ep[e].pending => BytesNeeded(ep[e]) = ep[e].pending - Len(ep[e].R))
  /\ [][(Len(ep'["c"].out) < Len(ep["c"].out) /\ srv'.pc = "top") =>
          (ep'["s"].state = "WaitForAsyncCallback" \/ Len(ep'["s"].R) < ep'["s"].pending)]_vars
  /\ [][\A t \in Threads :
          (Len(ep'["s"].out) < Len(ep["s"].out) /\ thr[t].pc = "recv" /\ thr'[t].pc = "top") =>
            (ep'["c"].state = "WaitForAsyncCallback" \/ Len(ep'["c"].R) < ep'["c"].pending)]_vars

\* the event-driven server was given part of a packet and asks for the rest
C29_Witness ==
  /\ srv.pc = "top"
  /\ srv.code = RPCCode.kNone
  /\ ep["s"].state = "ProcessPacket"
  /\ ep["s"].R # <<>>
  /\ BytesNeeded(ep["s"]) > 0
  /\ BytesNeeded(ep["s"]) < ep["s"].pending

\* what the state of h still has to read
StillToRead(h) ==
  CASE h.state = "RecvPacketNumBytes" -> {8}
    [] h.state = "ProcessPacket" -> {h.plen}
    [] h.state = "CopyAckReceived" -> {h.plen - 4}
    [] h.state \in {"WaitForAsyncCallback", "ShutdownReceived"} -> {0}
    [] OTHER -> {}

\* C30: in every state the server is in after HandleNextEvent returned (without
\* raising), and in every state a client is in while none of its calls has
\* raised, the pending byte count is 8 in RecvPacketNumBytes, the length prefix of the
\* packet in ProcessPacket, that length less the opcode in CopyAckReceived, and 0
\* in WaitForAsyncCallback and ShutdownReceived; the handler is in no other state
\* once the init header was read.
C30_PendingMatchesState ==
  /\ (srv.pc # "error" \/ srv.err = "ICHECK(code != kReturn && code != kCopyAck)") =>
       (ep["s"].state = "InitHeader" \/ ep["s"].pending \in StillToRead(ep["s"]))
  /\ (\A t \in Threads : thr[t].err = "") =>
       (ep["c"].state = "InitHeader" \/ ep["c"].pending \in StillToRead(ep["c"]))

\* the server was handed a CopyAck packet with one byte of payload
C30_Witness ==
  /\ ep["s"].state = "CopyAckReceived"
  /\ ep["s"].plen = 5
  /\ ep["s"].pending = 1
  /\ srv.code = RPCCode.kCopyAck

\* C31: in a CopyFromRemote that entered the drive loop with the handler idle
\* (in RecvPacketNumBytes, as every call does unless an earlier call on the
\* endpoint ended in a fatal error in the middle of a packet): when the drive
\* loop gives kCopyAck the handler is in
\* CopyAckReceived, the pending bytes are the payload of the CopyAck packet (its
\* length prefix less the opcode) and R holds them all; if the payload is the
\* nbytes asked for, the call returns them and ends in RecvPacketNumBytes with
\* eight bytes pending, and if it is shorter or longer the call raises.
C31_CopyAckWholeThenRead ==
  [][\A t \in Threads :
       (thr[t].pc # "idle" /\ thr'[t].pc = "idle" /\ thr[t].op.kind = "copyfrom"
          /\ ep["c"].entry = "RecvPacketNumBytes" /\ thr'[t].code = RPCCode.kCopyAck) =>
         /\ ep'["c"].ack[1] = "CopyAckReceived"
         /\ ep'["c"].ack[2] = ep'["c"].plen - 4
         /\ ep'["c"].ack[3] >= ep'["c"].ack[2]
         /\ IF ep'["c"].plen - 4 = thr[t].op.n
            THEN /\ thr'[t].err = ""
                 /\ Len(thr'[t].rv) = thr[t].op.n
                 /\ ep'["c"].state = "RecvPacketNumBytes"
                 /\ ep'["c"].pending = 8
            ELSE /\ thr'[t].err = IF ep'["c"].plen - 4 < thr[t].op.n
                                  THEN "ICHECK_LE(size, pending_request_bytes_)"
                                  ELSE "ICHECK_EQ(pending_request_bytes_, 0)"
                 /\ thr'[t].rv = <<>>]_vars

\* a CopyFromRemote of one byte returned the byte of the CopyAck packet
C31_Witness ==
  /\ thr[1].op.kind = "copyfrom"
  /\ thr[1].pc = "idle"
  /\ thr[1].code = RPCCode.kCopyAck
  /\ thr[1].err = ""
  /\ thr[1].rv = <<5>>
  /\ ep["c"].ack = <<"CopyAckReceived", 1, 1>>
  /\ ep["c"].state = "RecvPacketNumBytes"

\* the bytes a packet of the call op has after its length prefix
AfterPrefix(op) ==
  CASE op.kind = "shutdown" -> 4
    [] op.kind = "copyfrom" -> 44 + 8 * Len(op.t.shape)
    [] op.kind = "copyto" -> 44 + 8 * Len(op.t.shape) + op.n
    [] OTHER -> 4 + Len(OpBody(op))

\* C32: a facade call and Shutdown() write the length prefix as eight bytes, then
\* the opcode as four, then the body; the prefix is 4 for Shutdown, 44 + 8*ndim
\* for CopyFromRemote, 44 + 8*ndim + n for a CopyToRemote of n bytes, and in
\* every packet it is the number of bytes written after it.  A reply the server
\* writes starts with a prefix that counts the bytes after it, 4 + n for a
\* CopyAck of n bytes.
C32_PacketLayout ==
  /\ [][\A t \in Threads :
          /\ (thr[t].pc \in {"idle", "w_len"} /\ thr'[t].pc \in {"w_code", "sd_code"}) =>
                ep'["c"].W = ep["c"].W \o LE(AfterPrefix(thr'[t].op), 8)
          /\ (thr[t].pc \in {"w_code", "sd_code"} /\ thr'[t].pc # thr[t].pc) =>
                ep'["c"].W = ep["c"].W \o LE(IF thr[t].pc = "sd_code" THEN RPCCode.kShutdown
                                             ELSE OpCode(thr[t].op), 4)
          /\ (thr[t].pc = "w_body" /\ thr'[t].pc # "w_body") =>
                /\ Len(ep'["c"].W) = Len(ep["c"].W) + AfterPrefix(thr[t].op) - 4
                /\ ep'["c"].W = ep["c"].W \o OpBody(thr[t].op)]_vars
  /\ [][ep'["s"].nreply = ep["s"].nreply + 1 =>
          /\ Len(ep'["s"].out \o ep'["s"].W) >= Len(Replied) + 12
          /\ DecLE(SubSeq(ep'["s"].out \o ep'["s"].W, Len(Replied) + 1, Len(Replied) + 8))
               = Len(ep'["s"].out \o ep'["s"].W) - Len(Replied) - 8
          /\ Take(ep'["s"].out \o ep'["s"].W, Len(Replied)) = Replied]_vars

\* a CopyToRemote of one byte into a tensor of one dimension wrote its packet
\* with the prefix 53, and the server answered a CopyFromRemote of one byte with
\* a CopyAck packet of prefix 5
C32_Witness ==
  /\ \E t \in Threads :
       /\ thr[t].op.kind = "copyto"
       /\ thr[t].pc = "idle"
       /\ thr[t].err = ""
       /\ AfterPrefix(thr[t].op) = 53
  /\ \E t \in Threads :
       /\ thr[t].op.kind = "copyfrom"
       /\ thr[t].pc = "idle"
       /\ thr[t].code = RPCCode.kCopyAck
       /\ Len(thr[t].rv) = 1
\* C33: no handler reads the decoded arguments after a switch of state that
\* recycled the arena they were allocated in, the handler of a received
\* Exception packet included.
C33_ArgsNotReadAfterRecycle ==
  \A e \in DOMAIN ep : ~ep[e].stale

\* C34: once the handler is in ShutdownReceived it stays there: a later call of
\* HandleNextEvent yields Shutdown, reads nothing from R (the bytes that arrive
\* pile up unread), dispatches no packet and writes nothing to W.
C34_ShutdownAbsorbing ==
  [][\A e \in DOMAIN ep :
       ep[e].state = "ShutdownReceived" =>
         /\ ep'[e].state = "ShutdownReceived"
         /\ ep'[e].pending = 0
         /\ ep'[e].nread = ep[e].nread
         /\ ep'[e].ndisp = ep[e].ndisp
         /\ ep'[e].nreply = ep[e].nreply
         /\ Len(ep'[e].R) >= Len(ep[e].R)
         /\ SubSeq(ep'[e].R, 1, Len(ep[e].R)) = ep[e].R
         /\ Len(ep'[e].W) <= Len(ep[e].W)
         /\ (e = "s" /\ ep'[e].R # ep[e].R) => (srv'.code = RPCCode.kShutdown /\ srv'.ret = 0)]_vars

\* the event-driven server was given further bytes after the Shutdown packet
C34_Witness ==
  /\ ep["s"].state = "ShutdownReceived"
  /\ srv.pc = "returned"
  /\ srv.code = RPCCode.kShutdown
  /\ ep["s"].R # <<>>

\* C35: of a packet the handler reads no more bytes than its length prefix
\* declared: while a packet is being handled the bytes read of it and the bytes
\* still pending add up to the declared length, and a server handler that stopped
\* in the middle of a packet (as the one of a CopyToRemote whose byte count
\* exceeds the rest of the body) stopped with a fatal error.
C35_ReadsWithinPacket ==
  \A e \in DOMAIN ep :
    ep[e].state \in {"ProcessPacket", "WaitForAsyncCallback", "ReturnReceived",
                     "CopyAckReceived", "ShutdownReceived"} =>
      /\ ep[e].nread - ep[e].pstart + ep[e].pending = ep[e].plen
      /\ ep[e].nread - ep[e].pstart <= ep[e].plen
      /\ (e = "s" /\ ep[e].state = "ProcessPacket" /\ ep[e].nread > ep[e].pstart)
           => srv.pc = "error"

\* the CopyToRemote that asks for two bytes of a body that has one left stopped
\* the server, with the bytes of the packet that follows unread
C35_Witness ==
  /\ srv.pc = "error"
  /\ srv.err = "ICHECK_LE(size, pending_request_bytes_)"
  /\ ep["s"].state = "ProcessPacket"
  /\ ep["s"].plen = Len(Packet(RPCCode.kCopyToRemote, EncTensor(DevTensor(0)) \o LE(2, 8) \o <<9>>)) - 8
  /\ ep["s"].pending = 1
  /\ Len(ep["s"].R) > ep["s"].pending

\* C36 as stated: when the drive loop of ServerLoop returned Shutdown because
\* the channel closed the reader holds no byte, and a close that found bytes in
\* the reader was reported as the transport error.
C36_NoPartialPacketAtShutdown ==
  (srv.eof # "" /\ ep["s"].R # <<>>) =>
    /\ srv.pc = "error"
    /\ srv.err = "Channel closes before we get needed bytes"

\* C36: when the drive loop of ServerLoop returned Shutdown because the channel
\* closed, the handler is in RecvPacketNumBytes and the reader holds fewer than
\* the 8 bytes of a length prefix, possibly some: a close inside the prefix is a
\* clean shutdown, a close after the prefix is the transport error.
C36_ShutdownAtPrefixBoundary ==
  /\ (srv.eof # "" /\ srv.pc = "returned") =>
        /\ srv.code = RPCCode.kShutdown
        /\ ep["s"].state = "RecvPacketNumBytes"
        /\ ep["s"].pending = 8
        /\ Len(ep["s"].R) < 8
  /\ (srv.eof # "" /\ ep["s"].state # "RecvPacketNumBytes") =>
        /\ srv.pc = "error"
        /\ srv.err = "Channel closes before we get needed bytes"

\* the channel closed after two bytes of a length prefix, and ServerLoop returned
C36_Witness ==
  /\ srv.pc = "returned"
  /\ srv.eof = "RecvPacketNumBytes"
  /\ Len(ep["s"].R) = 2

\* C37: the session of the server changes only from none to one, in the step
\* that serves an InitServer packet and answers it with a Return packet; a step
\* that answers an InitServer packet with an Exception packet leaves the session
\* as it was, unset or installed.
C37_SessionOnlyWithReturn ==
  [][/\ ep'["s"].sess # ep["s"].sess =>
          /\ ep["s"].sess = "null"
          /\ ep["s"].state = "ProcessPacket"
          /\ DecI32(Take(Body, 4)) = RPCCode.kInitServer
          /\ ep'["s"].W = ep["s"].W \o Packet(RPCCode.kReturn, EncSeq(<<VNull>>))
     /\ (/\ ep["s"].state = "ProcessPacket"
         /\ ep'["s"].ndisp = ep["s"].ndisp + 1
         /\ DecI32(Take(Body, 4)) = RPCCode.kInitServer
         /\ ep["s"].sess # "null") =>
          /\ ep'["s"].sess = ep["s"].sess
          /\ ep'["s"].W = ep["s"].W \o ExceptionPacket("AlreadyInit")]_vars

\* C38: the step in which a call ends with the error of an Exception packet
\* leaves the handler in RecvPacketNumBytes with 8 bytes pending, nothing in R
\* and the mutex free; and a call of the echo function that took the mutex after
\* such a call returns its own argument.
C38_CleanAfterException ==
  /\ [][\A t \in Threads :
          (thr[t].pc # "idle" /\ thr'[t].pc = "idle" /\ thr'[t].err = "RemoteError") =>
            /\ ep'["c"].state = "RecvPacketNumBytes"
            /\ ep'["c"].pending = 8
            /\ ep'["c"].R = <<>>
            /\ ep'["c"].err = ""
            /\ mutex' = 0]_vars
  /\ [](\A t, u \in Threads :
          (/\ lockOrder = <<<<t, 1>>, <<u, 1>>>>
           /\ thr[t].err = "RemoteError"
           /\ thr[u].pc = "idle"
           /\ thr[u].op.kind = "call" /\ thr[u].op.n = 1 /\ thr[u].op.args = <<VInt(u)>>) =>
            /\ thr[u].err = ""
            /\ thr[u].code = RPCCode.kReturn
            /\ thr[u].rv = <<VInt(u)>>)

\* the call of thread 2 raised the peer's exception, and the call thread 1 made
\* after it returned its argument
C38_Witness ==
  /\ lockOrder = <<<<2, 1>>, <<1, 1>>>>
  /\ thr[2].pc = "idle" /\ thr[2].err = "RemoteError"
  /\ thr[1].pc = "idle" /\ thr[1].code = RPCCode.kReturn /\ thr[1].rv = <<VInt(1)>>
  /\ ep["c"].state = "RecvPacketNumBytes" /\ ep["c"].R = <<>>

\* C39: an endpoint begins at most one Shutdown packet, and a Shutdown() that
\* finds the channel released writes nothing to W and hands nothing to the
\* channel.
C39_ShutdownOnce ==
  /\ [](ep["c"].nshut <= 1)
  /\ [][\A t \in Threads :
          (thr[t].pc = "idle" /\ thr'[t].op.kind = "shutdown" /\ thr'[t].nops = thr[t].nops + 1
           /\ ~ep["c"].chan) =>
            /\ ep' = ep
            /\ wlog' = wlog
            /\ thr'[t].pc = "idle"]_vars

\* C40: the drive loop enters a receive only with W empty, on the client and on
\* the server; so when every caller that is inside a call is blocked in a receive
\* and the server is too, neither endpoint holds bytes in W.
C40_FlushedBeforeRecv ==
  /\ [][/\ \A t \in Threads :
            (thr[t].pc # "recv" /\ thr'[t].pc = "recv") => ep'["c"].W = <<>>
        /\ (srv.pc # "recv" /\ srv'.pc = "recv") => ep'["s"].W = <<>>]_vars
  /\ []((/\ \A t \in Threads : thr[t].pc \in {"idle", "recv"}
         /\ \E t \in Threads : thr[t].pc = "recv"
         /\ srv.pc = "recv") =>
          (ep["c"].W = <<>> /\ ep["s"].W = <<>>))

\* a client thread and the server are both in a receive, with the request on its
\* way in the channel
C40_Witness ==
  /\ thr[1].pc = "recv"
  /\ srv.pc = "recv"
  /\ ep["c"].out # <<>>
  /\ ep["c"].W = <<>>
  /\ ep["s"].W = <<>>

====
